---------------------------- MODULE Spec2Model ----------------------------
(***************************************************************************)
(* A model of the Itanium C++ ABI demangler in src/ast.rs: the recursive   *)
(* descent parser with its substitution table, and the renderer with its   *)
(* mark bits and argument scope stack.  Byte strings are TLA+ strings;     *)
(* every parser is an operator from (table, cursor) to a result record     *)
(* that carries the table on success and on failure alike, because         *)
(* insertions made by a failed alternative stay in the table.              *)
(***************************************************************************)
EXTENDS Integers, Sequences, FiniteSets, TLC

VARIABLES
  input,            \* the mangled symbol handed to the parser
  overflow_checks,  \* TRUE: arithmetic overflow panics; FALSE: it wraps
  pc,               \* "start", "parsed", "reparsed", "done", "sunk";
                    \* "number", "scanned" for the number scanner on its own
                    \* "stack", "looked" for the argument scope stack on its own
                    \* "text", "read" for a production on a text of its own
  subs,             \* the substitution table
  call,             \* the last call: production, offset, table before it
                    \* (for a lookup: the stack and the index)
  parsed,           \* outcome of the last call
  rendered,         \* outcome of MangledName::demangle
  sunk              \* outcome of MangledName::demangle into a sink of limited room

vars == <<input, overflow_checks, pc, subs, call, parsed, rendered, sunk>>

----------------------------------------------------------------------------
(* Bounds of the model. *)

\* Width of the machine word the model computes isize/usize with.
WordBits == 8

\* Number of nested demangle calls the native stack holds before it overflows.
MaxDepth == 40

\* Largest number of types after the name of a generated symbol.
MaxArgs == 2

\* Largest number of bytes a sink of limited room takes.
MaxRoom == 9

\* Longest run of digits in the texts given to the number scanner, besides
\* the runs at the edge of the machine word.
MaxDigits == 3

\* Most resolvers on an argument scope stack.
MaxStack == 3

\* Most operands written behind an operator name.
MaxOperands == 4

RECURSIVE Pow2(_)
Pow2(n) == IF n = 0 THEN 1 ELSE 2 * Pow2(n - 1)

ISIZE_MAX == Pow2(WordBits - 1) - 1

----------------------------------------------------------------------------
(* Bytes and cursors. *)

Min(a, b) == IF a < b THEN a ELSE b

\* Bytes m..n of s (1-based, inclusive), cut off at the end of s.
Slice(s, m, n) ==
  IF m < 1 \/ m > Len(s) \/ m > n THEN "" ELSE SubSeq(s, m, Min(n, Len(s)))

\* The i-th byte of s, "" past the end.
At(s, i) == Slice(s, i, i)

Digits36 == "0123456789ABCDEFGHIJKLMNOPQRSTUVWXYZ"

LowerCase == "abcdefghijklmnopqrstuvwxyz"

\* Position of byte c in the alphabet, 0 when it is not there.
PosIn(c, alphabet) ==
  LET hits == {i \in 1..Len(alphabet) : At(alphabet, i) = c}
  IN IF hits = {} THEN 0 ELSE CHOOSE i \in hits : TRUE

\* char::is_digit(base) && (is_numeric() || is_uppercase())
IsNumberDigit(c, base) == PosIn(c, Digits36) \in 1..base

\* char::is_digit(36): digits and letters of either case
IsDigit36(c) == PosIn(c, Digits36) > 0 \/ PosIn(c, LowerCase) > 0

IsDecimal(c) == PosIn(c, Digits36) \in 1..10

IndexStr(idx, s) == [idx |-> idx, s |-> s]

IsEmpty(inp) == Len(inp.s) = 0

\* IndexStr::peek, with "" for None
Peek(inp) == At(inp.s, 1)

range_from(inp, n) == IndexStr(inp.idx + n, Slice(inp.s, n + 1, Len(inp.s)))

range_to(inp, n) == IndexStr(inp.idx, Slice(inp.s, 1, n))

CanSplitAt(inp, n) == n <= Len(inp.s)

StartsWithBytes(inp, bytes) ==
  CanSplitAt(inp, Len(bytes)) /\ Slice(inp.s, 1, Len(bytes)) = bytes

----------------------------------------------------------------------------
(* AST nodes, the substitution table and parse results. *)

\* One shape for every AST node: kind, variant, numeric fields, children.
Node(k, s, n, kids) == [k |-> k, s |-> s, n |-> n, kids |-> kids]

None == Node("None", "", <<>>, <<>>)

Leaf(k, s) == Node(k, s, <<>>, <<>>)

\* SubstitutionTable::new.  The fields `active` and `stalled` are histories of
\* the model, not of the program: the parse calls that have not returned yet,
\* innermost first, each with the length of the input it was given; and
\* whether a call or a loop went on without having consumed a byte.
EmptyTable == [tab |-> <<>>, panicked |-> FALSE, active |-> <<>>, stalled |-> FALSE]

subs_len(st) == Len(st.tab)

subs_contains(st, idx) == idx < Len(st.tab)

\* SubstitutionTable::insert: append, the new entry's index is the old length
subs_insert(st, entry) == [st EXCEPT !.tab = Append(st.tab, entry)]

\* Index<usize> for SubstitutionTable: panics when idx is out of range
subs_index(st, idx) == IF idx < Len(st.tab) THEN st.tab[idx + 1] ELSE None

subs_index_panics(st, idx) == ~(idx < Len(st.tab))

Panic(st) == [st EXCEPT !.panicked = TRUE]

\* History: production P is called on the cursor, and returns.
Entered(st, P, inp) ==
  [st EXCEPT !.active = <<[production |-> P, left |-> Len(inp.s)]>> \o @]

Left(result) == [result EXCEPT !.subs.active = Tail(@)]

\* A call of production P on the cursor is inside a call of P that was given
\* no more input than this one: the recursion would not end.
Stalls(st, P, inp) ==
  \E k \in 1..Len(st.active) :
    st.active[k].production = P /\ st.active[k].left <= Len(inp.s)

Stalled(st) == [st EXCEPT !.stalled = TRUE]

\* SubstitutionTable::get_type: the entry behind a handle when it is a type
get_type(st, handle) ==
  IF handle.s = "BackReference" /\ subs_contains(st, handle.n[1])
       /\ st.tab[handle.n[1] + 1].k = "Type"
  THEN st.tab[handle.n[1] + 1]
  ELSE None

NoCursor == IndexStr(0, "")

Ok(val, tail, st) == [ok |-> TRUE, val |-> val, tail |-> tail, subs |-> st, err |-> ""]

Err(e, st) == [ok |-> FALSE, val |-> None, tail |-> NoCursor, subs |-> st, err |-> e]

BackReference(k, idx) == Node(k, "BackReference", <<idx>>, <<>>)

\* An insertion that reuses the last slot of a table that has one.
insert_and_return_handle_in_place(k, entry, st, tail) ==
  IF subs_len(st) = 0 THEN Ok(BackReference(k, 0), tail, subs_insert(st, entry))
  ELSE Ok(BackReference(k, subs_len(st) - 1), tail,
          [st EXCEPT !.tab[subs_len(st)] = entry])

\* Insert a freshly parsed substitutable and hand out the handle to it.
insert_and_return_handle(k, entry, st, tail) ==
  Ok(BackReference(k, subs_len(st)), tail, subs_insert(st, entry))

----------------------------------------------------------------------------
(* Low-level scanners. *)

consume(expected, inp) ==
  IF ~CanSplitAt(inp, Len(expected)) THEN [ok |-> FALSE, tail |-> NoCursor, err |-> "UnexpectedEnd"]
  ELSE IF Slice(inp.s, 1, Len(expected)) = expected
       THEN [ok |-> TRUE, tail |-> range_from(inp, Len(expected)), err |-> ""]
       ELSE [ok |-> FALSE, tail |-> NoCursor, err |-> "UnexpectedText"]

RECURSIVE CountDigits(_, _, _)
\* take_while(is_digit(base)).count(): letters of either case are digits
CountDigits(s, base, i) ==
  IF i <= Len(s) /\ (PosIn(At(s, i), Digits36) \in 1..base
                      \/ PosIn(At(s, i), LowerCase) \in 1..(base - 10))
  THEN 1 + CountDigits(s, base, i + 1) ELSE 0

RECURSIVE CountNumberDigits(_, _, _)
\* take_while(is_digit(base) && (is_numeric() || is_uppercase())).count()
CountNumberDigits(s, base, i) ==
  IF i <= Len(s) /\ IsNumberDigit(At(s, i), base)
  THEN 1 + CountNumberDigits(s, base, i + 1) ELSE 0

RECURSIVE from_str_radix(_, _, _, _)
\* isize::from_str_radix: the value, or -1 once it exceeds ISIZE_MAX
from_str_radix(s, base, i, acc) ==
  IF i > Len(s) THEN acc
  ELSE LET next == acc * base + (PosIn(At(s, i), Digits36) - 1)
       IN IF next > ISIZE_MAX THEN -1 ELSE from_str_radix(s, base, i + 1, next)

parse_number(base, allow_signed, inp0) ==
  LET Failure(e) == [ok |-> FALSE, val |-> 0, tail |-> NoCursor, err |-> e]
      Value(num_is_negative, tail, number) ==
        IF number = -1 THEN Failure("Overflow")
        ELSE [ok |-> TRUE, val |-> IF num_is_negative THEN -number ELSE number,
              tail |-> tail, err |-> ""]
      Digits(num_is_negative, inp, num_numeric) ==
        IF num_is_negative /\ IsEmpty(inp) THEN Failure("UnexpectedEnd")
        ELSE IF num_numeric = 0 THEN Failure("UnexpectedText")
        ELSE IF num_numeric > 1 /\ Peek(inp) = "0" THEN Failure("UnexpectedText")
        ELSE Value(num_is_negative, range_from(inp, num_numeric),
                   from_str_radix(Slice(inp.s, 1, num_numeric), base, 1, 0))
      Unsigned(num_is_negative, inp) ==
        Digits(num_is_negative, inp, CountNumberDigits(inp.s, base, 1))
      Signed(num_is_negative) ==
        Unsigned(num_is_negative, IF num_is_negative THEN range_from(inp0, 1) ELSE inp0)
  IN IF IsEmpty(inp0) THEN Failure("UnexpectedEnd")
     ELSE Signed(allow_signed /\ Peek(inp0) = "n")

----------------------------------------------------------------------------
(* Vocabulary nonterminals (define_vocabulary!): ordered tables of          *)
(* variant, mangled bytes and printable form.                               *)

OperatorName_table ==
  << [v |-> "New", m |-> "nw", p |-> "new"],
     [v |-> "NewArray", m |-> "na", p |-> "new[]"],
     [v |-> "Delete", m |-> "dl", p |-> "delete"],
     [v |-> "DeleteArray", m |-> "da", p |-> "delete[]"],
     [v |-> "UnaryPlus", m |-> "ps", p |-> "+"],
     [v |-> "Neg", m |-> "ng", p |-> "-"],
     [v |-> "AddressOf", m |-> "ad", p |-> "&"],
     [v |-> "Deref", m |-> "de", p |-> "*"],
     [v |-> "BitNot", m |-> "co", p |-> "~"],
     [v |-> "Add", m |-> "pl", p |-> "+"],
     [v |-> "Sub", m |-> "mi", p |-> "-"],
     [v |-> "Mul", m |-> "ml", p |-> "*"],
     [v |-> "Div", m |-> "dv", p |-> "/"],
     [v |-> "Rem", m |-> "rm", p |-> "%"],
     [v |-> "BitAnd", m |-> "an", p |-> "&"],
     [v |-> "BitOr", m |-> "or", p |-> "|"],
     [v |-> "BitXor", m |-> "eo", p |-> "^"],
     [v |-> "Assign", m |-> "aS", p |-> "="],
     [v |-> "AddAssign", m |-> "pL", p |-> "+="],
     [v |-> "SubAssign", m |-> "mI", p |-> "-="],
     [v |-> "MulAssign", m |-> "mL", p |-> "*="],
     [v |-> "DivAssign", m |-> "dV", p |-> "/="],
     [v |-> "RemAssign", m |-> "rM", p |-> "%="],
     [v |-> "BitAndAssign", m |-> "aN", p |-> "&="],
     [v |-> "BitOrAssign", m |-> "oR", p |-> "|="],
     [v |-> "BitXorAssign", m |-> "eO", p |-> "^="],
     [v |-> "Shl", m |-> "ls", p |-> "<<"],
     [v |-> "Shr", m |-> "rs", p |-> ">>"],
     [v |-> "ShlAssign", m |-> "lS", p |-> "<<="],
     [v |-> "ShrAssign", m |-> "rS", p |-> ">>="],
     [v |-> "Eq", m |-> "eq", p |-> "=="],
     [v |-> "Ne", m |-> "ne", p |-> "!="],
     [v |-> "Less", m |-> "lt", p |-> "<"],
     [v |-> "Greater", m |-> "gt", p |-> ">"],
     [v |-> "LessEq", m |-> "le", p |-> "<="],
     [v |-> "GreaterEq", m |-> "ge", p |-> ">="],
     [v |-> "Not", m |-> "nt", p |-> "!"],
     [v |-> "LogicalAnd", m |-> "aa", p |-> "&&"],
     [v |-> "LogicalOr", m |-> "oo", p |-> "||"],
     [v |-> "PostInc", m |-> "pp", p |-> "++"],
     [v |-> "PostDec", m |-> "mm", p |-> "--"],
     [v |-> "Comma", m |-> "cm", p |-> ","],
     [v |-> "DerefMemberPtr", m |-> "pm", p |-> "->*"],
     [v |-> "DerefMember", m |-> "pt", p |-> "->"],
     [v |-> "Call", m |-> "cl", p |-> "()"],
     [v |-> "Index", m |-> "ix", p |-> "[]"],
     [v |-> "Question", m |-> "qu", p |-> "?:"] >>

CtorDtorName_table ==
  << [v |-> "CompleteConstructor", m |-> "C1", p |-> "complete object constructor"],
     [v |-> "BaseConstructor", m |-> "C2", p |-> "base object constructor"],
     [v |-> "CompleteAllocatingConstructor", m |-> "C3", p |-> "complete object allocating constructor"],
     [v |-> "DeletingDestructor", m |-> "D0", p |-> "deleting destructor"],
     [v |-> "CompleteDestructor", m |-> "D1", p |-> "complete object destructor"],
     [v |-> "BaseDestructor", m |-> "D2", p |-> "base object destructor"] >>

RefQualifier_table ==
  << [v |-> "LValueRef", m |-> "R", p |-> "&"],
     [v |-> "RValueRef", m |-> "O", p |-> "&&"] >>

StandardBuiltinType_table ==
  << [v |-> "Void", m |-> "v", p |-> "void"],
     [v |-> "Wchar", m |-> "w", p |-> "wchar_t"],
     [v |-> "Bool", m |-> "b", p |-> "bool"],
     [v |-> "Char", m |-> "c", p |-> "char"],
     [v |-> "SignedChar", m |-> "a", p |-> "signed char"],
     [v |-> "UnsignedChar", m |-> "h", p |-> "unsigned char"],
     [v |-> "Short", m |-> "s", p |-> "short"],
     [v |-> "UnsignedShort", m |-> "t", p |-> "unsigned short"],
     [v |-> "Int", m |-> "i", p |-> "int"],
     [v |-> "UnsignedInt", m |-> "j", p |-> "unsigned int"],
     [v |-> "Long", m |-> "l", p |-> "long"],
     [v |-> "UnsignedLong", m |-> "m", p |-> "unsigned long"],
     [v |-> "LongLong", m |-> "x", p |-> "long long"],
     [v |-> "UnsignedLongLong", m |-> "y", p |-> "unsigned long long"],
     [v |-> "Int128", m |-> "n", p |-> "__int128"],
     [v |-> "Uint128", m |-> "o", p |-> "unsigned __int128"],
     [v |-> "Float", m |-> "f", p |-> "float"],
     [v |-> "Double", m |-> "d", p |-> "double"],
     [v |-> "LongDouble", m |-> "e", p |-> "long double"],
     [v |-> "Float128", m |-> "g", p |-> "__float128"],
     [v |-> "Ellipsis", m |-> "z", p |-> "ellipsis"],
     [v |-> "DecimalFloat64", m |-> "Dd", p |-> "_Decimal64"],
     [v |-> "DecimalFloat128", m |-> "De", p |-> "_Decimal128"],
     [v |-> "DecimalFloat32", m |-> "Df", p |-> "_Decimal32"],
     [v |-> "DecimalFloat16", m |-> "Dh", p |-> "_Decimal16"],
     [v |-> "Char32", m |-> "Di", p |-> "char32_t"],
     [v |-> "Char16", m |-> "Ds", p |-> "char16_t"],
     [v |-> "Auto", m |-> "Da", p |-> "auto"],
     [v |-> "Decltype", m |-> "Dc", p |-> "decltype(auto)"],
     [v |-> "Nullptr", m |-> "Dn", p |-> "std::nullptr_t"] >>

WellKnownComponent_table ==
  << [v |-> "Std", m |-> "St", p |-> "std"],
     [v |-> "StdAllocator", m |-> "Sa", p |-> "std::allocator"],
     [v |-> "StdString1", m |-> "Sb", p |-> "std::basic_string"],
     [v |-> "StdString2", m |-> "Ss", p |-> "std::string"],
     [v |-> "StdIstream", m |-> "Si", p |-> "std::basic_istream<char, std::char_traits<char> >"],
     [v |-> "StdOstream", m |-> "So", p |-> "std::ostream"],
     [v |-> "StdIostream", m |-> "Sd", p |-> "std::basic_iostream<char, std::char_traits<char> >"] >>

\* Index of the first row whose mangled bytes the input starts with, else 0.
FirstMatch(table, inp) ==
  LET hits == {i \in 1..Len(table) : StartsWithBytes(inp, table[i].m)}
  IN IF hits = {} THEN 0 ELSE CHOOSE i \in hits : \A j \in hits : i <= j

\* The input ran out in the middle of some row's mangled bytes.
found_prefix(table, inp) ==
  \E i \in 1..Len(table) :
     /\ ~CanSplitAt(inp, Len(table[i].m))
     /\ 0 < Len(inp.s)
     /\ inp.s = Slice(table[i].m, 1, Len(inp.s))

\* Every production is entered through the dispatcher Parse, defined below
\* the productions.  A production reads bottom-up: the IN line makes the
\* first call of the Rust function, and each local operator takes what the
\* calls so far returned and either returns (an early `return` or a failed
\* `try!`) or makes the next call.
RECURSIVE Parse(_, _, _)

Vocabulary_parse(k, table, st, inp) ==
  LET Row(i) ==
        IF i > 0 THEN Ok(Leaf(k, table[i].v), range_from(inp, Len(table[i].m)), st)
        ELSE IF IsEmpty(inp) \/ found_prefix(table, inp) THEN Err("UnexpectedEnd", st)
        ELSE Err("UnexpectedText", st)
  IN Row(FirstMatch(table, inp))

Vocabulary_starts_with(table, byte) ==
  \E i \in 1..Len(table) : At(table[i].m, 1) = byte

Vocabulary_printable(table, variant) ==
  LET i == CHOOSE i \in 1..Len(table) : table[i].v = variant
  IN table[i].p

OperatorName_parse(st, inp) == Vocabulary_parse("OperatorName", OperatorName_table, st, inp)

CtorDtorName_parse(st, inp) == Vocabulary_parse("CtorDtorName", CtorDtorName_table, st, inp)

RefQualifier_parse(st, inp) == Vocabulary_parse("RefQualifier", RefQualifier_table, st, inp)

StandardBuiltinType_parse(st, inp) ==
  Vocabulary_parse("StandardBuiltinType", StandardBuiltinType_table, st, inp)

WellKnownComponent_parse(st, inp) ==
  Vocabulary_parse("WellKnownComponent", WellKnownComponent_table, st, inp)

----------------------------------------------------------------------------
(* Terminal productions. *)

RECURSIVE CountIdentifier(_, _)
\* take_while(c == '_' || c.is_digit(36)).count()
CountIdentifier(s, i) ==
  IF i <= Len(s) /\ (At(s, i) = "_" \/ IsDigit36(At(s, i)))
  THEN 1 + CountIdentifier(s, i + 1) ELSE 0

Identifier_parse(st, inp) ==
  LET Taken(end, tail) ==
        IF end = 0 THEN Err("UnexpectedText", st)
        ELSE Ok(Node("Identifier", "", <<inp.idx, tail.idx>>, <<>>), tail, st)
      Counted(end) == Taken(end, range_from(inp, end))
  IN IF IsEmpty(inp) THEN Err("UnexpectedEnd", st)
     ELSE Counted(CountIdentifier(inp.s, 1))

\* A source name that takes the identifier its bytes start with.
SourceName_parse_unchecked(st, inp) ==
  LET Named(num, ident) ==
        IF ~num.ok THEN Err(num.err, st)
        ELSE IF num.val = 0 THEN Err("UnexpectedText", st)
        ELSE IF ~CanSplitAt(num.tail, num.val) THEN Err("UnexpectedEnd", st)
        ELSE IF ~ident.ok THEN ident
        ELSE Ok(Node("SourceName", "", <<>>, <<ident.val>>), range_from(num.tail, num.val), st)
      Counted(num) == Named(num, Parse("Identifier", st, range_to(num.tail, num.val)))
  IN Counted(parse_number(10, FALSE, inp))

SourceName_parse(st, inp) ==
  LET Named(num, ident) ==
        IF ~num.ok THEN Err(num.err, st)
        ELSE IF num.val = 0 THEN Err("UnexpectedText", st)
        ELSE IF ~CanSplitAt(num.tail, num.val) THEN Err("UnexpectedEnd", st)
        ELSE IF ~ident.ok THEN ident
        ELSE IF ~IsEmpty(ident.tail) THEN Err("UnexpectedText", st)
        ELSE Ok(Node("SourceName", "", <<>>, <<ident.val>>), range_from(num.tail, num.val), st)
      Counted(num) == Named(num, Parse("Identifier", st, range_to(num.tail, num.val)))
  IN Counted(parse_number(10, FALSE, inp))

SourceName_starts_with(byte) == IsDecimal(byte)

Number_parse(inp) == parse_number(10, TRUE, inp)

SeqId_parse(inp) == parse_number(36, FALSE, inp)

UnnamedTypeName_parse(st, inp) ==
  LET Closed(number, c2) ==
        IF ~c2.ok THEN Err(c2.err, st)
        ELSE Ok(Node("UnnamedTypeName", "", number, <<>>), c2.tail, st)
      Numbered(c1, num) ==
        IF ~c1.ok THEN Err(c1.err, st)
        ELSE IF num.ok THEN Closed(<<num.val>>, consume("_", num.tail))
        ELSE Closed(<<>>, consume("_", c1.tail))
      Tagged(c1) == Numbered(c1, parse_number(10, FALSE, c1.tail))
  IN Tagged(consume("Ut", inp))

UnnamedTypeName_starts_with(byte) == byte = "U"

UnqualifiedName_parse(st, inp) ==
  LET op == Parse("OperatorName", st, inp)
      ctor_dtor == Parse("CtorDtorName", st, inp)
      source == Parse("SourceName", st, inp)
      unnamed == Parse("UnnamedTypeName", st, inp)
  IN IF op.ok THEN Ok(Node("UnqualifiedName", "Operator", <<>>, <<op.val>>), op.tail, st)
     ELSE IF ctor_dtor.ok
       THEN Ok(Node("UnqualifiedName", "CtorDtor", <<>>, <<ctor_dtor.val>>), ctor_dtor.tail, st)
     ELSE IF source.ok
       THEN Ok(Node("UnqualifiedName", "Source", <<>>, <<source.val>>), source.tail, st)
     ELSE IF unnamed.ok
       THEN Ok(Node("UnqualifiedName", "UnnamedType", <<>>, <<unnamed.val>>), unnamed.tail, st)
     ELSE unnamed

UnqualifiedName_starts_with(byte) ==
  \/ Vocabulary_starts_with(OperatorName_table, byte)
  \/ Vocabulary_starts_with(CtorDtorName_table, byte)
  \/ SourceName_starts_with(byte)
  \/ UnnamedTypeName_starts_with(byte)

NvOffset_parse(st, inp) ==
  LET Offset(num) ==
        IF num.ok THEN Ok(Node("NvOffset", "", <<num.val>>, <<>>), num.tail, st)
        ELSE Err(num.err, st)
  IN Offset(Number_parse(inp))

VOffset_parse(st, inp) ==
  LET Both(offset, c, virtual_offset) ==
        IF ~offset.ok THEN Err(offset.err, st)
        ELSE IF ~c.ok THEN Err(c.err, st)
        ELSE IF ~virtual_offset.ok THEN Err(virtual_offset.err, st)
        ELSE Ok(Node("VOffset", "", <<offset.val, virtual_offset.val>>, <<>>),
                virtual_offset.tail, st)
      Second(offset, c) == Both(offset, c, Number_parse(c.tail))
      First(offset) == Second(offset, consume("_", offset.tail))
  IN First(Number_parse(inp))

CallOffset_parse(st, inp) ==
  LET NonVirtual(nv, hc) ==
        IF ~nv.ok THEN nv
        ELSE IF ~hc.ok THEN Err(hc.err, st)
        ELSE Ok(Node("CallOffset", "NonVirtual", <<>>, <<nv.val>>), hc.tail, st)
      Virtual(vo, vc) ==
        IF ~vo.ok THEN vo
        ELSE IF ~vc.ok THEN Err(vc.err, st)
        ELSE Ok(Node("CallOffset", "Virtual", <<>>, <<vo.val>>), vc.tail, st)
      AfterH(nv) == NonVirtual(nv, consume("_", nv.tail))
      AfterV(vo) == Virtual(vo, consume("_", vo.tail))
      Tagged(h, v) ==
        IF IsEmpty(inp) THEN Err("UnexpectedEnd", st)
        ELSE IF h.ok THEN AfterH(Parse("NvOffset", st, h.tail))
        ELSE IF v.ok THEN AfterV(Parse("VOffset", st, v.tail))
        ELSE Err("UnexpectedText", st)
  IN Tagged(consume("h", inp), consume("v", inp))

----------------------------------------------------------------------------
(* The grammar parser.  Every alternative is tried against the table the    *)
(* previous alternative left behind.                                        *)

RECURSIVE PrefixHandle_loop(_, _, _), can_be_global(_, _, _),
          parse_loop(_, _, _, _), Steps_parse(_, _, _, _)

\* A handle built from what Substitution::parse returned.
HandleOf(k, sub) == [sub EXCEPT !.k = k]

\* Substitution::parse without the `subs.contains(idx)` test.
Substitution_parse_unchecked(st, inp) ==
  LET Resolved(idx, u) ==
        IF ~u.ok THEN Err(u.err, st)
        ELSE Ok(BackReference("Substitution", idx), u.tail, st)
      Indexed(s, seq) ==
        IF ~s.ok THEN Err(s.err, st)
        ELSE IF seq.ok THEN Resolved(seq.val + 1, consume("_", seq.tail))
        ELSE Resolved(0, consume("_", s.tail))
      Tagged(well_known, s) ==
        IF well_known.ok
          THEN Ok(Node("Substitution", "WellKnown", <<>>, <<well_known.val>>),
                  well_known.tail, st)
        ELSE Indexed(s, SeqId_parse(s.tail))
  IN Tagged(Parse("WellKnownComponent", st, inp), consume("S", inp))

Substitution_parse(st, inp) ==
  LET Resolved(idx, u) ==
        IF ~subs_contains(st, idx) THEN Err("BadBackReference", st)
        ELSE IF ~u.ok THEN Err(u.err, st)
        ELSE Ok(BackReference("Substitution", idx), u.tail, st)
      Indexed(s, seq) ==
        IF ~s.ok THEN Err(s.err, st)
        ELSE IF seq.ok THEN Resolved(seq.val + 1, consume("_", seq.tail))
        ELSE Resolved(0, consume("_", s.tail))
      Tagged(well_known, s) ==
        IF well_known.ok
          THEN Ok(Node("Substitution", "WellKnown", <<>>, <<well_known.val>>),
                  well_known.tail, st)
        ELSE Indexed(s, SeqId_parse(s.tail))
  IN Tagged(Parse("WellKnownComponent", st, inp), consume("S", inp))

B2N(b) == IF b THEN 1 ELSE 0

CvQualifiers_new(restrict, volatile, const_) ==
  Node("CvQualifiers", "", <<B2N(restrict), B2N(volatile), B2N(const_)>>, <<>>)

CvQualifiers_default == CvQualifiers_new(FALSE, FALSE, FALSE)

CvQualifiers_parse(st, inp) ==
  LET Qualified(restrict, volatile, k, t2) ==
        Ok(CvQualifiers_new(restrict, volatile, k.ok), IF k.ok THEN k.tail ELSE t2, st)
      Const(restrict, volatile, t2) == Qualified(restrict, volatile, consume("K", t2), t2)
      Volatile(restrict, v, t1) == Const(restrict, v.ok, IF v.ok THEN v.tail ELSE t1)
      Restrict(restrict, t1) == Volatile(restrict, consume("V", t1), t1)
      Tagged(r) == Restrict(r.ok, IF r.ok THEN r.tail ELSE inp)
  IN Tagged(consume("r", inp))

BuiltinType_parse(st, inp) ==
  LET Extension(u, name) ==
        IF ~u.ok THEN Err(u.err, st)
        ELSE IF ~name.ok THEN name
        ELSE Ok(Node("BuiltinType", "Extension", <<>>, <<name.val>>), name.tail, st)
      Vendor(u) == Extension(u, Parse("SourceName", st, u.tail))
      Standard(ty) ==
        IF ty.ok THEN Ok(Node("BuiltinType", "Standard", <<>>, <<ty.val>>), ty.tail, st)
        ELSE Vendor(consume("u", inp))
  IN Standard(Parse("StandardBuiltinType", st, inp))

\* (number + 1) on isize: with overflow checks the addition panics past
\* ISIZE_MAX, without them it wraps to isize::MIN, which `as usize` reads
\* as 2^(WordBits-1).
TemplateParam_index(number) == number + 1

TemplateParam_overflows(number) == number + 1 > ISIZE_MAX

TemplateParam_parse(st, inp) ==
  LET Closed(number, st1, u) ==
        IF ~u.ok THEN Err(u.err, st1)
        ELSE Ok(Node("TemplateParam", "", <<number>>, <<>>), u.tail, st1)
      Numbered(t, num) ==
        IF ~t.ok THEN Err(t.err, st)
        ELSE IF ~num.ok THEN Closed(0, st, consume("_", t.tail))
        ELSE Closed(TemplateParam_index(num.val),
                    IF TemplateParam_overflows(num.val) /\ overflow_checks
                    THEN Panic(st) ELSE st,
                    consume("_", num.tail))
      Tagged(t) == Numbered(t, parse_number(10, FALSE, t.tail))
  IN Tagged(consume("T", inp))

TemplateTemplateParamHandle_parse(st, inp) ==
  LET sub == Parse("Substitution", st, inp)
      param == Parse("TemplateParam", st, inp)
  IN IF sub.ok THEN Ok(HandleOf("TemplateTemplateParamHandle", sub.val), sub.tail, st)
     ELSE IF ~param.ok THEN param
     ELSE insert_and_return_handle("TemplateTemplateParamHandle",
            Node("TemplateTemplateParam", "", <<>>, <<param.val>>), param.subs, param.tail)

FunctionParam_parse(st, inp) ==
  LET Closed(scope, qualifiers, param, u) ==
        IF ~u.ok THEN Err(u.err, st)
        ELSE Ok(Node("FunctionParam", "", <<scope>> \o param, <<qualifiers.val>>), u.tail, st)
      Numbered(scope, qualifiers, num) ==
        IF num.ok THEN Closed(scope, qualifiers, <<num.val>>, consume("_", num.tail))
        ELSE Closed(scope, qualifiers, <<>>, consume("_", qualifiers.tail))
      Qualified(scope, qualifiers) ==
        Numbered(scope, qualifiers, parse_number(10, FALSE, qualifiers.tail))
      Positioned(scope, p) ==
        IF ~p.ok THEN Err(p.err, st)
        ELSE Qualified(scope, Parse("CvQualifiers", st, p.tail))
      Scoped(f, l, scopenum) ==
        IF ~f.ok THEN Err(f.err, st)
        ELSE IF IsEmpty(f.tail) THEN Err("UnexpectedEnd", st)
        ELSE IF l.ok /\ ~scopenum.ok THEN Err(scopenum.err, st)
        ELSE IF l.ok THEN Positioned(scopenum.val, consume("p", scopenum.tail))
        ELSE Positioned(0, consume("p", f.tail))
      Level(f, l) == Scoped(f, l, parse_number(10, FALSE, l.tail))
      Tagged(f) == Level(f, consume("L", f.tail))
  IN Tagged(consume("f", inp))

UnscopedName_parse(st, inp) ==
  LET Wrapped(variant, name) ==
        IF ~name.ok THEN name
        ELSE Ok(Node("UnscopedName", variant, <<>>, <<name.val>>), name.tail, st)
      Scoped(s) ==
        IF s.ok THEN Wrapped("Std", Parse("UnqualifiedName", st, s.tail))
        ELSE Wrapped("Unqualified", Parse("UnqualifiedName", st, inp))
  IN Scoped(consume("St", inp))

UnscopedTemplateNameHandle_parse(st, inp) ==
  LET Substituted(sub) ==
        IF ~sub.ok THEN sub
        ELSE Ok(HandleOf("UnscopedTemplateNameHandle", sub.val), sub.tail, sub.subs)
      Named(name) ==
        IF name.ok
          THEN insert_and_return_handle("UnscopedTemplateNameHandle",
                 Node("UnscopedTemplateName", "", <<>>, <<name.val>>), name.subs, name.tail)
        ELSE Substituted(Parse("Substitution", name.subs, inp))
  IN Named(Parse("UnscopedName", st, inp))

Name_parse(st, inp) ==
  LET Local(local) ==
        IF ~local.ok THEN local
        ELSE Ok(Node("Name", "Local", <<>>, <<local.val>>), local.tail, local.subs)
      Template(handle, args) ==
        IF ~args.ok THEN args
        ELSE Ok(Node("Name", "UnscopedTemplate", <<>>, <<handle.val, args.val>>),
                args.tail, args.subs)
      Handle(handle) ==
        IF handle.ok THEN Template(handle, Parse("TemplateArgs", handle.subs, handle.tail))
        ELSE Local(Parse("LocalName", handle.subs, inp))
      Inserted(handle) ==
        Template(handle, Parse("TemplateArgs", handle.subs, handle.tail))
      Unscoped(unscoped) ==
        IF unscoped.ok THEN
          IF Peek(unscoped.tail) = "I"
            THEN Inserted(insert_and_return_handle("UnscopedTemplateNameHandle",
                            Node("UnscopedTemplateName", "", <<>>, <<unscoped.val>>),
                            unscoped.subs, unscoped.tail))
          ELSE Ok(Node("Name", "Unscoped", <<>>, <<unscoped.val>>),
                  unscoped.tail, unscoped.subs)
        ELSE Handle(Parse("UnscopedTemplateNameHandle", unscoped.subs, inp))
      Std(stdname) ==
        IF ~stdname.ok THEN stdname
        ELSE Ok(Node("Name", "Std", <<>>, <<stdname.val>>), stdname.tail, stdname.subs)
      Nested(nested, s) ==
        IF nested.ok
          THEN Ok(Node("Name", "Nested", <<>>, <<nested.val>>), nested.tail, nested.subs)
        ELSE IF s.ok THEN Std(Parse("UnqualifiedName", nested.subs, s.tail))
        ELSE Unscoped(Parse("UnscopedName", nested.subs, inp))
  IN Nested(Parse("NestedName", st, inp), consume("St", inp))

\* subs.get(idx) is a Prefix of one of the given variants
PrefixEntryIs(st, handle, variants) ==
  /\ handle.s = "BackReference"
  /\ subs_contains(st, handle.n[1])
  /\ subs_index(st, handle.n[1]).k = "Prefix"
  /\ subs_index(st, handle.n[1]).s \in variants

\* A test that takes every prefix for a template prefix.
PrefixHandle_is_any_prefix(st, handle) == TRUE

PrefixHandle_is_template_prefix(st, handle) ==
  PrefixEntryIs(st, handle, {"Unqualified", "Nested", "TemplateParam"})

\* An insertion at the head of the table, handing out the head's index.
add_to_subs_at_head(st, prefix, tail) ==
  Ok(BackReference("PrefixHandle", 0), tail, [st EXCEPT !.tab = <<prefix>> \o @])

add_to_subs(st, prefix, tail) == insert_and_return_handle("PrefixHandle", prefix, st, tail)

\* Prefix::Unqualified(name) without a current prefix, Prefix::Nested otherwise
PrefixOfName(current, name) ==
  IF current = None THEN Node("Prefix", "Unqualified", <<>>, <<name>>)
  ELSE Node("Prefix", "Nested", <<>>, <<current, name>>)

\* One pass of the loop of PrefixHandle::parse and, unless it returns, the rest.
PrefixHandle_loop(st, tail, current) ==
  LET c == Peek(tail)
      sub == Parse("Substitution", st, tail)
      param == Parse("TemplateParam", st, tail)
      decltype == Parse("Decltype", st, tail)
      dname == Parse("UnqualifiedName", decltype.subs, tail)
      args == Parse("TemplateArgs", st, tail)
      source == Parse("SourceName", st, tail)
      name == Parse("UnqualifiedName", st, tail)
      Continue(r) ==
        IF Len(r.tail.s) >= Len(tail.s) THEN Err("Stalled", Stalled(r.subs))
        ELSE PrefixHandle_loop(r.subs, r.tail, r.val)
  IN IF c = "" THEN
       IF current # None THEN Ok(current, tail, st) ELSE Err("UnexpectedEnd", st)
     ELSE IF c = "S" THEN
       IF ~sub.ok THEN sub
       ELSE Continue(Ok(HandleOf("PrefixHandle", sub.val), sub.tail, sub.subs))
     ELSE IF c = "T" THEN
       IF ~param.ok THEN param
       ELSE Continue(add_to_subs(param.subs,
                       Node("Prefix", "TemplateParam", <<>>, <<param.val>>), param.tail))
     ELSE IF c = "D" THEN
       IF decltype.ok
         THEN Continue(add_to_subs(decltype.subs,
                         Node("Prefix", "Decltype", <<>>, <<decltype.val>>), decltype.tail))
       ELSE IF ~dname.ok THEN dname
       ELSE Continue(add_to_subs(dname.subs, PrefixOfName(current, dname.val), dname.tail))
     ELSE IF c = "I" /\ current # None /\ PrefixHandle_is_template_prefix(st, current) THEN
       IF ~args.ok THEN args
       ELSE Continue(add_to_subs(args.subs,
                       Node("Prefix", "Template", <<>>, <<current, args.val>>), args.tail))
     ELSE IF current # None /\ SourceName_starts_with(c) THEN
       IF ~source.ok THEN source
       ELSE IF Peek(source.tail) = "M"
         THEN Continue(add_to_subs(source.subs,
                         Node("Prefix", "DataMember", <<>>,
                              <<current, Node("DataMemberPrefix", "", <<>>, <<source.val>>)>>),
                         consume("M", source.tail).tail))
       ELSE Continue(add_to_subs(source.subs,
                       PrefixOfName(current, Node("UnqualifiedName", "Source", <<>>, <<source.val>>)),
                       source.tail))
     ELSE IF UnqualifiedName_starts_with(c) THEN
       IF ~name.ok THEN name
       ELSE Continue(add_to_subs(name.subs, PrefixOfName(current, name.val), name.tail))
     ELSE IF current # None THEN Ok(current, tail, st)
     ELSE IF IsEmpty(tail) THEN Err("UnexpectedEnd", st)
     ELSE Err("UnexpectedText", st)

PrefixHandle_parse(st, inp) == PrefixHandle_loop(st, inp, None)

NestedName_parse(st, inp) ==
  LET Closed(q, ref_qualifier, prefix, e) ==
        IF ~e.ok THEN Err(e.err, prefix.subs)
        ELSE Ok(Node("NestedName", "", <<>>, <<q.val, ref_qualifier, prefix.val>>),
                e.tail, prefix.subs)
      Prefixed(q, ref_qualifier, prefix) ==
        IF ~prefix.ok THEN prefix
        ELSE IF prefix.val.s = "BackReference"
                /\ subs_index_panics(prefix.subs, prefix.val.n[1])
          THEN Err("UnexpectedText", Panic(prefix.subs))
        ELSE IF prefix.val.s = "BackReference"
                /\ ~PrefixEntryIs(prefix.subs, prefix.val, {"Nested", "Template"})
          THEN Err("UnexpectedText", prefix.subs)
        ELSE Closed(q, ref_qualifier, prefix, consume("E", prefix.tail))
      Qualified(q, r) ==
        IF r.ok THEN Prefixed(q, r.val, Parse("PrefixHandle", st, r.tail))
        ELSE Prefixed(q, None, Parse("PrefixHandle", st, q.tail))
      Opened(n, q) ==
        IF ~n.ok THEN Err(n.err, st)
        ELSE Qualified(q, Parse("RefQualifier", st, q.tail))
      Tagged(n) == Opened(n, Parse("CvQualifiers", st, n.tail))
  IN Tagged(consume("N", inp))

\* The loop shared by one_or_more and zero_or_more: parse P until it fails.
parse_loop(P, st, tail, results) ==
  LET r == Parse(P, st, tail)
  IN IF r.ok /\ Len(r.tail.s) >= Len(tail.s) THEN Err("Stalled", Stalled(r.subs))
     ELSE IF r.ok THEN parse_loop(P, r.subs, r.tail, Append(results, r.val))
     ELSE Ok(Node("Vec", P, <<>>, results), tail, r.subs)

one_or_more(P, st, inp) ==
  LET first == Parse(P, st, inp)
  IN IF ~first.ok THEN first
     ELSE parse_loop(P, first.subs, first.tail, <<first.val>>)

zero_or_more(P, st, inp) == parse_loop(P, st, inp, <<>>)

\* An insertion that hands out the index after the one the entry went to.
TypeHandle_insert_past(variant, n, kids, st, tail) ==
  Ok(BackReference("TypeHandle", subs_len(st) + 1), tail,
     subs_insert(st, Node("Type", variant, n, kids)))

\* A look ahead that never sees template arguments.
never_template_args(tail) == FALSE

\* `tail.peek() == Some(b'I')`: what was parsed is a <template-template-param>
\* and its <template-args> follow
followed_by_template_args(tail) == Peek(tail) = "I"

\* insert_and_return_handle of TypeHandle::parse
TypeHandle_insert(variant, n, kids, st, tail) ==
  insert_and_return_handle("TypeHandle", Node("Type", variant, n, kids), st, tail)

\* The cv-qualified alternative of TypeHandle::parse without its test that
\* the qualifiers consumed a byte.
TypeHandle_parse_unguarded(st, inp) ==
  LET Qualified(qualifiers, qty) ==
        IF ~qty.ok THEN qty
        ELSE TypeHandle_insert("Qualified", <<>>, <<qualifiers.val, qty.val>>,
                               qty.subs, qty.tail)
      CvQualified(qualifiers) ==
        Qualified(qualifiers, Parse("TypeHandle", qualifiers.subs, qualifiers.tail))
  IN CvQualified(Parse("CvQualifiers", st, inp))

\* `consume(tag)` then a type: the P, R, O, C, G and Dp alternatives
TypeHandle_wrapped(variant, st, tail) ==
  LET ty == Parse("TypeHandle", st, tail)
  IN IF ~ty.ok THEN ty
     ELSE TypeHandle_insert(variant, <<>>, <<ty.val>>, ty.subs, ty.tail)

\* The U <source-name> [<template-args>] <type> alternative
TypeHandle_vendor(st, tail) ==
  LET Typed(name, args, ty) ==
        IF ~ty.ok THEN ty
        ELSE TypeHandle_insert("VendorExtension", <<>>,
               <<name.val, IF args.ok THEN args.val ELSE None, ty.val>>, ty.subs, ty.tail)
      WithArgs(name, args) ==
        Typed(name, args,
              Parse("TypeHandle", args.subs, IF args.ok THEN args.tail ELSE name.tail))
      Named(name) ==
        IF ~name.ok THEN name
        ELSE WithArgs(name, Parse("TemplateArgs", name.subs, name.tail))
  IN Named(Parse("SourceName", st, tail))

TypeHandle_parse(st, inp) ==
  LET Wrapper(st1, dp) ==
        IF consume("P", inp).ok THEN TypeHandle_wrapped("PointerTo", st1, range_from(inp, 1))
        ELSE IF consume("R", inp).ok THEN TypeHandle_wrapped("LvalueRef", st1, range_from(inp, 1))
        ELSE IF consume("O", inp).ok THEN TypeHandle_wrapped("RvalueRef", st1, range_from(inp, 1))
        ELSE IF consume("C", inp).ok THEN TypeHandle_wrapped("Complex", st1, range_from(inp, 1))
        ELSE IF consume("G", inp).ok THEN TypeHandle_wrapped("Imaginary", st1, range_from(inp, 1))
        ELSE IF consume("U", inp).ok THEN TypeHandle_vendor(st1, range_from(inp, 1))
        ELSE IF ~dp.ok THEN Err(dp.err, st1)
        ELSE TypeHandle_wrapped("PackExpansion", st1, dp.tail)
      Qualified(qualifiers, qty) ==
        IF ~qty.ok THEN qty
        ELSE TypeHandle_insert("Qualified", <<>>, <<qualifiers.val, qty.val>>,
                               qty.subs, qty.tail)
      CvQualified(qualifiers) ==
        IF Len(qualifiers.tail.s) < Len(inp.s)
          THEN Qualified(qualifiers, Parse("TypeHandle", qualifiers.subs, qualifiers.tail))
        ELSE Wrapper(qualifiers.subs, consume("Dp", inp))
      IsDecltype(decltype) ==
        IF decltype.ok
          THEN TypeHandle_insert("Decltype", <<>>, <<decltype.val>>,
                                 decltype.subs, decltype.tail)
        ELSE CvQualified(Parse("CvQualifiers", decltype.subs, inp))
      TemplateTemplate(ttp, ttpargs) ==
        IF ~ttpargs.ok THEN ttpargs
        ELSE TypeHandle_insert("TemplateTemplate", <<>>, <<ttp.val, ttpargs.val>>,
                               ttpargs.subs, ttpargs.tail)
      IsTemplateTemplate(ttp) ==
        IF ttp.ok THEN TemplateTemplate(ttp, Parse("TemplateArgs", ttp.subs, ttp.tail))
        ELSE IsDecltype(Parse("Decltype", ttp.subs, inp))
      IsTemplateParam(param) ==
        IF param.ok /\ ~followed_by_template_args(param.tail)
          THEN TypeHandle_insert("TemplateParam", <<>>, <<param.val>>, param.subs, param.tail)
        ELSE IsTemplateTemplate(Parse("TemplateTemplateParamHandle", param.subs, inp))
      IsPointerToMember(ptm) ==
        IF ptm.ok
          THEN TypeHandle_insert("PointerToMember", <<>>, <<ptm.val>>, ptm.subs, ptm.tail)
        ELSE IsTemplateParam(Parse("TemplateParam", ptm.subs, inp))
      IsArray(arr) ==
        IF arr.ok THEN TypeHandle_insert("Array", <<>>, <<arr.val>>, arr.subs, arr.tail)
        ELSE IsPointerToMember(Parse("PointerToMemberType", arr.subs, inp))
      IsClassEnum(cls) ==
        IF cls.ok THEN TypeHandle_insert("ClassEnum", <<>>, <<cls.val>>, cls.subs, cls.tail)
        ELSE IsArray(Parse("ArrayType", cls.subs, inp))
      IsFunction(funty) ==
        IF funty.ok
          THEN TypeHandle_insert("Function", <<>>, <<funty.val>>, funty.subs, funty.tail)
        ELSE IsClassEnum(Parse("ClassEnumType", funty.subs, inp))
      IsBuiltin(builtin) ==
        IF builtin.ok
          THEN Ok(Node("TypeHandle", "Builtin", <<>>, <<builtin.val>>),
                  builtin.tail, builtin.subs)
        ELSE IsFunction(Parse("FunctionType", builtin.subs, inp))
      IsSubstitution(sub) ==
        IF sub.ok /\ ~followed_by_template_args(sub.tail)
          THEN Ok(HandleOf("TypeHandle", sub.val), sub.tail, sub.subs)
        ELSE IsBuiltin(Parse("BuiltinType", sub.subs, inp))
  IN IsSubstitution(Parse("Substitution", st, inp))

FunctionType_parse(st, inp) ==
  LET Closed(cv, flags, bare, ref, e) ==
        IF ~e.ok THEN Err(e.err, bare.subs)
        ELSE Ok(Node("FunctionType", "", flags, <<cv.val, bare.val, ref>>),
                e.tail, bare.subs)
      Referenced(cv, flags, bare, r) ==
        IF r.ok THEN Closed(cv, flags, bare, r.val, consume("E", r.tail))
        ELSE Closed(cv, flags, bare, None, consume("E", bare.tail))
      Typed(cv, flags, bare) ==
        IF ~bare.ok THEN bare
        ELSE Referenced(cv, flags, bare, Parse("RefQualifier", bare.subs, bare.tail))
      ExternC(cv, dx, f, y) ==
        IF ~f.ok THEN Err(f.err, st)
        ELSE Typed(cv, <<B2N(dx.ok), B2N(y.ok)>>,
                   Parse("BareFunctionType", st, IF y.ok THEN y.tail ELSE f.tail))
      Tagged(cv, dx, f) == ExternC(cv, dx, f, consume("Y", f.tail))
      Transaction(cv, dx) == Tagged(cv, dx, consume("F", IF dx.ok THEN dx.tail ELSE cv.tail))
      Qualified(cv) == Transaction(cv, consume("Dx", cv.tail))
  IN Qualified(Parse("CvQualifiers", st, inp))

BareFunctionType_parse(st, inp) ==
  LET Typed(types) ==
        IF ~types.ok THEN types
        ELSE Ok(Node("BareFunctionType", "", <<>>, types.val.kids), types.tail, types.subs)
  IN Typed(one_or_more("TypeHandle", st, inp))

Decltype_parse(st, inp) ==
  LET Closed(variant, expr, e) ==
        IF ~e.ok THEN Err(e.err, expr.subs)
        ELSE Ok(Node("Decltype", variant, <<>>, <<expr.val>>), e.tail, expr.subs)
      Inner(variant, expr) ==
        IF ~expr.ok THEN expr
        ELSE Closed(variant, expr, consume("E", expr.tail))
      Kind(d, t, bigt) ==
        IF ~d.ok THEN Err(d.err, st)
        ELSE IF t.ok THEN Inner("IdExpression", Parse("Expression", st, t.tail))
        ELSE IF bigt.ok THEN Inner("Expression", Parse("Expression", st, bigt.tail))
        ELSE Err(bigt.err, st)
      Tagged(d) == Kind(d, consume("t", d.tail), consume("T", d.tail))
  IN Tagged(consume("D", inp))

ClassEnumType_parse(st, inp) ==
  LET Elaborated(variant, ename) ==
        IF ~ename.ok THEN ename
        ELSE Ok(Node("ClassEnumType", variant, <<>>, <<ename.val>>), ename.tail, ename.subs)
      Keyword(name, t, s, u, e) ==
        IF ~t.ok THEN Err(t.err, name.subs)
        ELSE IF s.ok THEN Elaborated("ElaboratedStruct", Parse("Name", name.subs, s.tail))
        ELSE IF u.ok THEN Elaborated("ElaboratedUnion", Parse("Name", name.subs, u.tail))
        ELSE IF e.ok THEN Elaborated("ElaboratedEnum", Parse("Name", name.subs, e.tail))
        ELSE Err(e.err, name.subs)
      Tagged(name, t) ==
        Keyword(name, t, consume("s", t.tail), consume("u", t.tail), consume("e", t.tail))
      Named(name) ==
        IF name.ok
          THEN Ok(Node("ClassEnumType", "Named", <<>>, <<name.val>>), name.tail, name.subs)
        ELSE Tagged(name, consume("T", inp))
  IN Named(Parse("Name", st, inp))

\* `_ <element type>` closing each form of <array-type>
ArrayType_element(variant, n, kids, st, tail) ==
  LET Element(ty) ==
        IF ~ty.ok THEN ty
        ELSE Ok(Node("ArrayType", variant, n, Append(kids, ty.val)), ty.tail, ty.subs)
      Underscore(u) ==
        IF ~u.ok THEN Err(u.err, st)
        ELSE Element(Parse("TypeHandle", st, u.tail))
  IN Underscore(consume("_", tail))

ArrayType_parse(st, inp) ==
  LET Dimension(a, expr) ==
        IF expr.ok
          THEN ArrayType_element("DimensionExpression", <<>>, <<expr.val>>,
                                 expr.subs, expr.tail)
        ELSE ArrayType_element("NoDimension", <<>>, <<>>, expr.subs, a.tail)
      Numbered(a, num) ==
        IF num.ok THEN ArrayType_element("DimensionNumber", <<num.val>>, <<>>, st, num.tail)
        ELSE Dimension(a, Parse("Expression", st, a.tail))
      Tagged(a) ==
        IF ~a.ok THEN Err(a.err, st)
        ELSE Numbered(a, parse_number(10, FALSE, a.tail))
  IN Tagged(consume("A", inp))

PointerToMemberType_parse(st, inp) ==
  LET Member(ty1, ty2) ==
        IF ~ty2.ok THEN ty2
        ELSE Ok(Node("PointerToMemberType", "", <<>>, <<ty1.val, ty2.val>>),
                ty2.tail, ty2.subs)
      Class(ty1) ==
        IF ~ty1.ok THEN ty1
        ELSE Member(ty1, Parse("TypeHandle", ty1.subs, ty1.tail))
      Tagged(m) ==
        IF ~m.ok THEN Err(m.err, st)
        ELSE Class(Parse("TypeHandle", st, m.tail))
  IN Tagged(consume("M", inp))

TemplateArgs_parse(st, inp) ==
  LET Closed(args, e) ==
        IF ~e.ok THEN Err(e.err, args.subs)
        ELSE Ok(Node("TemplateArgs", "", <<>>, args.val.kids), e.tail, args.subs)
      Listed(args) ==
        IF ~args.ok THEN args
        ELSE Closed(args, consume("E", args.tail))
      Tagged(i) ==
        IF ~i.ok THEN Err(i.err, st)
        ELSE Listed(one_or_more("TemplateArg", st, i.tail))
  IN Tagged(consume("I", inp))

TemplateArg_parse(st, inp) ==
  LET Pack(args, je) ==
        IF ~je.ok THEN Err(je.err, args.subs)
        ELSE Ok(Node("TemplateArg", "ArgPack", <<>>, args.val.kids), je.tail, args.subs)
      PackArgs(args) == Pack(args, consume("E", args.tail))
      ArgPack(ty, j) ==
        IF ~j.ok THEN Err(j.err, ty.subs)
        ELSE IF Peek(j.tail) = "E"
          THEN PackArgs(Ok(Node("Vec", "TemplateArg", <<>>, <<>>), j.tail, ty.subs))
        ELSE PackArgs(zero_or_more("TemplateArg", ty.subs, j.tail))
      IsType(ty) ==
        IF ty.ok THEN Ok(Node("TemplateArg", "Type", <<>>, <<ty.val>>), ty.tail, ty.subs)
        ELSE ArgPack(ty, consume("J", inp))
      IsSimple(primary) ==
        IF primary.ok
          THEN Ok(Node("TemplateArg", "SimpleExpression", <<>>, <<primary.val>>),
                  primary.tail, primary.subs)
        ELSE IsType(Parse("TypeHandle", primary.subs, inp))
      Closed(expr, xe) ==
        IF ~xe.ok THEN Err(xe.err, expr.subs)
        ELSE Ok(Node("TemplateArg", "Expression", <<>>, <<expr.val>>), xe.tail, expr.subs)
      Inner(expr) ==
        IF ~expr.ok THEN expr
        ELSE Closed(expr, consume("E", expr.tail))
      Tagged(x) ==
        IF x.ok THEN Inner(Parse("Expression", st, x.tail))
        ELSE IsSimple(Parse("ExprPrimary", st, inp))
  IN Tagged(consume("X", inp))

\* One `try!` step of a production body: a literal to consume, a repeated
\* production (P* or P+), or a single production.
Step_parse(step, st, tail) ==
  LET Literal(c) == IF c.ok THEN Ok(None, c.tail, st) ELSE Err(c.err, st)
  IN CASE step.t = "lit" -> Literal(consume(step.v, tail))
       [] step.t = "many" -> zero_or_more(step.v, st, tail)
       [] step.t = "some" -> one_or_more(step.v, st, tail)
       [] step.t = "one" -> Parse(step.v, st, tail)

Lit(bytes) == [t |-> "lit", v |-> bytes]

One(P) == [t |-> "one", v |-> P]

Many(P) == [t |-> "many", v |-> P]

Some(P) == [t |-> "some", v |-> P]

\* A production body made of `try!` steps in sequence; the parsed values
\* become the children of the node, in order.
Steps_parse(steps, st, tail, kids) ==
  LET Rest(r) ==
        IF ~r.ok THEN r
        ELSE Steps_parse(Tail(steps), r.subs, r.tail,
                         IF Head(steps).t = "lit" THEN kids ELSE Append(kids, r.val))
  IN IF steps = <<>> THEN Ok(Node("Kids", "", <<>>, kids), tail, st)
     ELSE Rest(Step_parse(Head(steps), st, tail))

\* Parse the steps and wrap the children in a node of the given kind/variant.
Body_parse(k, variant, steps, st, tail) ==
  LET Wrapped(r) ==
        IF ~r.ok THEN r ELSE Ok(Node(k, variant, <<>>, r.val.kids), r.tail, r.subs)
  IN Wrapped(Steps_parse(steps, st, tail, <<>>))

\* The two-byte operation codes Expression::parse matches directly.
Expression_direct ==
  << [tag |-> "cl", v |-> "Call", steps |-> <<One("Expression"), Many("Expression")>>],
     [tag |-> "tl", v |-> "ConversionBraced",
        steps |-> <<One("TypeHandle"), Many("Expression"), Lit("E")>>],
     [tag |-> "il", v |-> "BracedInitList", steps |-> <<One("Expression"), Lit("E")>>],
     [tag |-> "dc", v |-> "DynamicCast", steps |-> <<One("TypeHandle"), One("Expression")>>],
     [tag |-> "sc", v |-> "StaticCast", steps |-> <<One("TypeHandle"), One("Expression")>>],
     [tag |-> "cc", v |-> "ConstCast", steps |-> <<One("TypeHandle"), One("Expression")>>],
     [tag |-> "rc", v |-> "ReinterpretCast", steps |-> <<One("TypeHandle"), One("Expression")>>],
     [tag |-> "ti", v |-> "TypeidType", steps |-> <<One("TypeHandle")>>],
     [tag |-> "te", v |-> "TypeidExpr", steps |-> <<One("Expression")>>],
     [tag |-> "st", v |-> "SizeofType", steps |-> <<One("TypeHandle")>>],
     [tag |-> "sz", v |-> "SizeofExpr", steps |-> <<One("Expression")>>],
     [tag |-> "at", v |-> "AlignofType", steps |-> <<One("TypeHandle")>>],
     [tag |-> "az", v |-> "AlignofExpr", steps |-> <<One("Expression")>>],
     [tag |-> "nx", v |-> "Noexcept", steps |-> <<One("Expression")>>],
     [tag |-> "dt", v |-> "Member", steps |-> <<One("Expression"), One("UnresolvedName")>>],
     [tag |-> "pt", v |-> "DerefMember", steps |-> <<One("Expression"), One("UnresolvedName")>>],
     [tag |-> "ds", v |-> "PointerToMember", steps |-> <<One("Expression"), One("Expression")>>],
     [tag |-> "sP", v |-> "SizeofCapturedTemplatePack", steps |-> <<Many("TemplateArg"), Lit("E")>>],
     [tag |-> "sp", v |-> "PackExpansion", steps |-> <<One("Expression")>>],
     [tag |-> "tw", v |-> "Throw", steps |-> <<One("Expression")>>],
     [tag |-> "tr", v |-> "Rethrow", steps |-> <<>>] >>

\* The `cv` arm: one argument, or `_ <expression>* E`
Expression_conversion(st, tail) ==
  LET Converted(variant, r) ==
        IF ~r.ok THEN r
        ELSE Ok(Node("Expression", variant, <<>>, r.val.kids), r.tail, r.subs)
      Operands(ty, u) ==
        IF u.ok
          THEN Converted("ConversionMany",
                 Steps_parse(<<Many("Expression"), Lit("E")>>, ty.subs, u.tail, <<ty.val>>))
        ELSE Converted("ConversionOne",
               Steps_parse(<<One("Expression")>>, ty.subs, ty.tail, <<ty.val>>))
      Typed(ty) ==
        IF ~ty.ok THEN ty
        ELSE Operands(ty, consume("_", ty.tail))
  IN Typed(Parse("TypeHandle", st, tail))

\* The `sZ` arm: a template parameter pack, else a function parameter pack
Expression_sizeof_pack(st, tail) ==
  LET tparam == Parse("TemplateParam", st, tail)
      fparam == Parse("FunctionParam", tparam.subs, tail)
  IN IF tparam.ok
       THEN Ok(Node("Expression", "SizeofTemplatePack", <<>>, <<tparam.val>>),
               tparam.tail, tparam.subs)
     ELSE IF ~fparam.ok THEN fparam
     ELSE Ok(Node("Expression", "SizeofFunctionPack", <<>>, <<fparam.val>>),
             fparam.tail, fparam.subs)

\* The nw / na arms of can_be_global
can_be_global_new(variant, st, tail) ==
  LET Initialized(r, init) ==
        IF ~init.ok THEN init
        ELSE Ok(Node("Expression", variant, <<>>, Append(r.val.kids, init.val)),
                init.tail, init.subs)
      Placed(r, e) ==
        IF e.ok
          THEN Ok(Node("Expression", variant, <<>>, Append(r.val.kids, None)), e.tail, r.subs)
        ELSE Initialized(r, Parse("Initializer", r.subs, r.tail))
      Typed(r) ==
        IF ~r.ok THEN r
        ELSE Placed(r, consume("E", r.tail))
  IN Typed(Steps_parse(<<Many("Expression"), Lit("_"), One("TypeHandle")>>, st, tail, <<>>))

\* A global scope that also takes an unresolved name behind `gs`.
can_be_global_or_name(is_global, st, inp) ==
  LET head == Slice(inp.s, 1, 2)
      tail == range_from(inp, 2)
      G(name) == IF is_global THEN "Global" \o name ELSE name
      Named(name) ==
        IF ~name.ok THEN Err("UnexpectedText", st)
        ELSE Ok(Node("Expression", "UnresolvedName", <<>>, <<name.val>>), name.tail, name.subs)
  IN IF ~CanSplitAt(inp, 2) THEN Err("UnexpectedEnd", st)
     ELSE IF head = "nw" THEN can_be_global_new(G("New"), st, tail)
     ELSE IF head = "na" THEN can_be_global_new(G("NewArray"), st, tail)
     ELSE IF head = "dl" THEN Body_parse("Expression", G("Delete"), <<One("Expression")>>, st, tail)
     ELSE IF head = "da"
       THEN Body_parse("Expression", G("DeleteArray"), <<One("Expression")>>, st, tail)
     ELSE IF is_global THEN Named(Parse("UnresolvedName", st, inp))
     ELSE Err("UnexpectedText", st)

can_be_global(is_global, st, inp) ==
  LET head == Slice(inp.s, 1, 2)
      tail == range_from(inp, 2)
      G(name) == IF is_global THEN "Global" \o name ELSE name
  IN IF ~CanSplitAt(inp, 2) THEN Err("UnexpectedEnd", st)
     ELSE IF head = "nw" THEN can_be_global_new(G("New"), st, tail)
     ELSE IF head = "na" THEN can_be_global_new(G("NewArray"), st, tail)
     ELSE IF head = "dl" THEN Body_parse("Expression", G("Delete"), <<One("Expression")>>, st, tail)
     ELSE IF head = "da"
       THEN Body_parse("Expression", G("DeleteArray"), <<One("Expression")>>, st, tail)
     ELSE Err("UnexpectedText", st)

\* Index of the row of Expression_direct with the given tag, else 0.
Expression_direct_row(head) ==
  LET Pick(hits) == IF hits = {} THEN 0 ELSE CHOOSE i \in hits : TRUE
  IN Pick({i \in 1..Len(Expression_direct) : Expression_direct[i].tag = head})

\* An <operator-name> fallback that stops at two operands.
Expression_operator_binary(st, inp) ==
  LET Binary(opname, first, second) ==
        IF ~second.ok
          THEN Ok(Node("Expression", "Unary", <<>>, <<opname.val, first.val>>),
                  first.tail, second.subs)
        ELSE Ok(Node("Expression", "Binary", <<>>, <<opname.val, first.val, second.val>>),
                second.tail, second.subs)
      Unary(opname, first) ==
        IF ~first.ok THEN first
        ELSE Binary(opname, first, Parse("Expression", first.subs, first.tail))
      Named(opname) ==
        IF ~opname.ok THEN opname
        ELSE Unary(opname, Parse("Expression", opname.subs, opname.tail))
  IN Named(Parse("OperatorName", st, inp))

\* The <operator-name> fallback: as many operands as parse, up to three.
Expression_operator(st, inp) ==
  LET Ternary(opname, first, second, third) ==
        IF ~third.ok
          THEN Ok(Node("Expression", "Binary", <<>>, <<opname.val, first.val, second.val>>),
                  second.tail, third.subs)
        ELSE Ok(Node("Expression", "Ternary", <<>>,
                     <<opname.val, first.val, second.val, third.val>>),
                third.tail, third.subs)
      Binary(opname, first, second) ==
        IF ~second.ok
          THEN Ok(Node("Expression", "Unary", <<>>, <<opname.val, first.val>>),
                  first.tail, second.subs)
        ELSE Ternary(opname, first, second, Parse("Expression", second.subs, second.tail))
      Unary(opname, first) ==
        IF ~first.ok THEN first
        ELSE Binary(opname, first, Parse("Expression", first.subs, first.tail))
      Named(opname) ==
        IF ~opname.ok THEN opname
        ELSE Unary(opname, Parse("Expression", opname.subs, opname.tail))
  IN Named(Parse("OperatorName", st, inp))

Expression_parse(st, inp) ==
  LET IsPrimary(prim) ==
        IF prim.ok
          THEN Ok(Node("Expression", "Primary", <<>>, <<prim.val>>), prim.tail, prim.subs)
        ELSE Expression_operator(prim.subs, inp)
      IsUnresolvedName(name) ==
        IF name.ok
          THEN Ok(Node("Expression", "UnresolvedName", <<>>, <<name.val>>),
                  name.tail, name.subs)
        ELSE IsPrimary(Parse("ExprPrimary", name.subs, inp))
      IsFunctionParam(fparam) ==
        IF fparam.ok
          THEN Ok(Node("Expression", "FunctionParam", <<>>, <<fparam.val>>),
                  fparam.tail, fparam.subs)
        ELSE IsUnresolvedName(Parse("UnresolvedName", fparam.subs, inp))
      IsTemplateParam(tparam) ==
        IF tparam.ok
          THEN Ok(Node("Expression", "TemplateParam", <<>>, <<tparam.val>>),
                  tparam.tail, tparam.subs)
        ELSE IsFunctionParam(Parse("FunctionParam", tparam.subs, inp))
      IsGlobal(global) ==
        IF global.ok THEN global
        ELSE IsTemplateParam(Parse("TemplateParam", global.subs, inp))
      Direct(row) == Body_parse("Expression", row.v, row.steps, st, range_from(inp, 2))
      Coded(head, tail, row) ==
        IF row > 0 THEN Direct(Expression_direct[row])
        ELSE IF CanSplitAt(inp, 2) /\ head = "cv" THEN Expression_conversion(st, tail)
        ELSE IF CanSplitAt(inp, 2) /\ head = "sZ" THEN Expression_sizeof_pack(st, tail)
        ELSE IF CanSplitAt(inp, 2) /\ head = "gs" THEN can_be_global(TRUE, st, tail)
        ELSE IsGlobal(can_be_global(FALSE, st, inp))
      Headed(head) ==
        Coded(head, range_from(inp, 2),
              IF CanSplitAt(inp, 2) THEN Expression_direct_row(head) ELSE 0)
      Prefixed(pp, mm) ==
        IF pp.ok THEN Body_parse("Expression", "PrefixInc", <<One("Expression")>>, st, pp.tail)
        ELSE IF mm.ok
          THEN Body_parse("Expression", "PrefixDec", <<One("Expression")>>, st, mm.tail)
        ELSE Headed(Slice(inp.s, 1, 2))
  IN Prefixed(consume("pp_", inp), consume("mm_", inp))

\* `[<template-args>]` after an already parsed piece
OptionalTemplateArgs(st, tail) ==
  LET args == Parse("TemplateArgs", st, tail)
  IN IF args.ok THEN args ELSE Ok(None, tail, args.subs)

SimpleId_parse(st, inp) ==
  LET name == Parse("SourceName", st, inp)
      args == OptionalTemplateArgs(name.subs, name.tail)
  IN IF ~name.ok THEN name
     ELSE Ok(Node("SimpleId", "", <<>>, <<name.val, args.val>>), args.tail, args.subs)

UnresolvedQualifierLevel_parse(st, inp) ==
  LET id == Parse("SimpleId", st, inp)
  IN IF ~id.ok THEN id
     ELSE Ok(Node("UnresolvedQualifierLevel", "", <<>>, <<id.val>>), id.tail, id.subs)

\* Insert an <unresolved-type> and return the handle to it.
UnresolvedTypeHandle_insert(variant, kids, st, tail) ==
  insert_and_return_handle("UnresolvedTypeHandle", Node("UnresolvedType", variant, <<>>, kids),
                           st, tail)

UnresolvedTypeHandle_parse(st, inp) ==
  LET param == Parse("TemplateParam", st, inp)
      args == OptionalTemplateArgs(param.subs, param.tail)
      decltype == Parse("Decltype", param.subs, inp)
      sub == Parse("Substitution", decltype.subs, inp)
  IN IF param.ok
       THEN UnresolvedTypeHandle_insert("Template", <<param.val, args.val>>, args.subs, args.tail)
     ELSE IF decltype.ok
       THEN UnresolvedTypeHandle_insert("Decltype", <<decltype.val>>, decltype.subs, decltype.tail)
     ELSE IF ~sub.ok THEN sub
     ELSE Ok(HandleOf("UnresolvedTypeHandle", sub.val), sub.tail, sub.subs)

DestructorName_parse(st, inp) ==
  LET ty == Parse("UnresolvedTypeHandle", st, inp)
      name == Parse("SimpleId", ty.subs, inp)
  IN IF ty.ok THEN Ok(Node("DestructorName", "Unresolved", <<>>, <<ty.val>>), ty.tail, ty.subs)
     ELSE IF ~name.ok THEN name
     ELSE Ok(Node("DestructorName", "Name", <<>>, <<name.val>>), name.tail, name.subs)

BaseUnresolvedName_parse(st, inp) ==
  LET Destructor(dtor) ==
        IF ~dtor.ok THEN dtor
        ELSE Ok(Node("BaseUnresolvedName", "Destructor", <<>>, <<dtor.val>>),
                dtor.tail, dtor.subs)
      Operator(opname, args) ==
        Ok(Node("BaseUnresolvedName", "Operator", <<>>, <<opname.val, args.val>>),
           args.tail, args.subs)
      OnOperator(opname) ==
        IF ~opname.ok THEN opname
        ELSE Operator(opname, OptionalTemplateArgs(opname.subs, opname.tail))
      Named(name, on, dn) ==
        IF name.ok
          THEN Ok(Node("BaseUnresolvedName", "Name", <<>>, <<name.val>>), name.tail, name.subs)
        ELSE IF on.ok THEN OnOperator(Parse("OperatorName", name.subs, on.tail))
        ELSE IF ~dn.ok THEN Err(dn.err, name.subs)
        ELSE Destructor(Parse("DestructorName", name.subs, dn.tail))
  IN Named(Parse("SimpleId", st, inp), consume("on", inp), consume("dn", inp))

UnresolvedName_parse(st, inp) ==
  LET Levels == <<Some("UnresolvedQualifierLevel"), Lit("E"), One("BaseUnresolvedName")>>
      Nested1(ty, tname) ==
        IF ~tname.ok THEN tname
        ELSE Ok(Node("UnresolvedName", "Nested1", <<>>,
                     <<ty.val, Node("Vec", "UnresolvedQualifierLevel", <<>>, <<>>), tname.val>>),
                tname.tail, tname.subs)
      Typed(sr, ty) ==
        IF ty.ok THEN Nested1(ty, Parse("BaseUnresolvedName", ty.subs, ty.tail))
        ELSE Body_parse("UnresolvedName", "Nested2", Levels, ty.subs, sr.tail)
      Scoped(name, sr) ==
        IF name.ok
          THEN Ok(Node("UnresolvedName", "Name", <<>>, <<name.val>>), name.tail, name.subs)
        ELSE IF ~sr.ok THEN Err(sr.err, name.subs)
        ELSE IF Peek(sr.tail) = "N"
          THEN Body_parse("UnresolvedName", "Nested1",
                          <<One("UnresolvedTypeHandle")>> \o Levels,
                          name.subs, range_from(sr.tail, 1))
        ELSE Typed(sr, Parse("UnresolvedTypeHandle", name.subs, sr.tail))
      Rooted(gname, gsr) ==
        IF gname.ok
          THEN Ok(Node("UnresolvedName", "Global", <<>>, <<gname.val>>),
                  gname.tail, gname.subs)
        ELSE IF ~gsr.ok THEN Err(gsr.err, gname.subs)
        ELSE Body_parse("UnresolvedName", "GlobalNested2", Levels, gname.subs, gsr.tail)
      Tagged(gs) ==
        IF gs.ok THEN Rooted(Parse("BaseUnresolvedName", st, gs.tail), consume("sr", gs.tail))
        ELSE Scoped(Parse("BaseUnresolvedName", st, inp), consume("sr", inp))
  IN Tagged(consume("gs", inp))

RECURSIVE CountUntilE(_, _)
\* take_while(c != b'E').count()
CountUntilE(s, i) ==
  IF i <= Len(s) /\ At(s, i) # "E" THEN 1 + CountUntilE(s, i + 1) ELSE 0

ExprPrimary_parse(st, inp) ==
  LET External(name, ne) ==
        IF ~ne.ok THEN Err(ne.err, name.subs)
        ELSE Ok(Node("ExprPrimary", "External", <<>>, <<name.val>>), ne.tail, name.subs)
      Named(name) ==
        IF ~name.ok THEN name
        ELSE External(name, consume("E", name.tail))
      Literal(ty, lit_tail, le) ==
        IF ~le.ok THEN Err(le.err, ty.subs)
        ELSE Ok(Node("ExprPrimary", "Literal", <<ty.tail.idx, lit_tail.idx>>, <<ty.val>>),
                le.tail, ty.subs)
      Bytes(ty, lit_tail) == Literal(ty, lit_tail, consume("E", lit_tail))
      Typed(l, ty) ==
        IF ty.ok THEN Bytes(ty, range_from(ty.tail, CountUntilE(ty.tail.s, 1)))
        ELSE Named(Parse("MangledName", ty.subs, l.tail))
      Tagged(l) ==
        IF ~l.ok THEN Err(l.err, st)
        ELSE Typed(l, Parse("TypeHandle", st, l.tail))
  IN Tagged(consume("L", inp))

Initializer_parse(st, inp) ==
  LET Tagged(pi) ==
        IF ~pi.ok THEN Err(pi.err, st)
        ELSE Body_parse("Initializer", "", <<Many("Expression"), Lit("E")>>, st, pi.tail)
  IN Tagged(consume("pi", inp))

Discriminator_parse(st, inp) ==
  LET Closed(num, close) ==
        IF ~close.ok THEN Err(close.err, st)
        ELSE Ok(Node("Discriminator", "", <<num.val>>, <<>>), close.tail, st)
      Long(num) ==
        IF ~num.ok THEN Err(num.err, st)
        ELSE IF num.val < 10 THEN Err("UnexpectedText", st)
        ELSE Closed(num, consume("_", num.tail))
      Short(u, head) ==
        IF ~CanSplitAt(u.tail, 1) THEN Err("UnexpectedEnd", st)
        ELSE IF IsDecimal(head)
          THEN Ok(Node("Discriminator", "", <<PosIn(head, Digits36) - 1>>, <<>>),
                  range_from(u.tail, 1), st)
        ELSE Err("UnexpectedText", st)
      Second(u, uu) ==
        IF uu.ok THEN Long(parse_number(10, FALSE, uu.tail))
        ELSE Short(u, Peek(u.tail))
      First(u) ==
        IF ~u.ok THEN Err(u.err, st)
        ELSE Second(u, consume("_", u.tail))
  IN First(consume("_", inp))

\* `[<discriminator>]` after an already parsed piece
OptionalDiscriminator(st, tail) ==
  LET disc == Parse("Discriminator", st, tail)
  IN IF disc.ok THEN disc ELSE Ok(None, tail, st)

\* usize read of an isize (`num as _`)
AsUsize(num) == IF num < 0 THEN num + Pow2(WordBits) ELSE num

LocalName_parse(st, inp) ==
  LET Entity(encoding, name, disc) ==
        Ok(Node("LocalName", "Relative", <<>>, <<encoding.val, name.val, disc.val>>),
           disc.tail, name.subs)
      Named(encoding, name) ==
        IF ~name.ok THEN name
        ELSE Entity(encoding, name, OptionalDiscriminator(name.subs, name.tail))
      DefaultName(encoding, param, dname) ==
        IF ~dname.ok THEN dname
        ELSE Ok(Node("LocalName", "Default", param, <<encoding.val, dname.val>>),
                dname.tail, dname.subs)
      Default(encoding, param, du) ==
        IF ~du.ok THEN Err(du.err, encoding.subs)
        ELSE DefaultName(encoding, param, Parse("Name", encoding.subs, du.tail))
      Numbered(encoding, d, num) ==
        IF num.ok THEN Default(encoding, <<AsUsize(num.val)>>, consume("_", num.tail))
        ELSE Default(encoding, <<>>, consume("_", d.tail))
      StringLiteral(encoding, sdisc) ==
        Ok(Node("LocalName", "Relative", <<>>, <<encoding.val, None, sdisc.val>>),
           sdisc.tail, encoding.subs)
      Kind(encoding, e, s, d) ==
        IF ~e.ok THEN Err(e.err, encoding.subs)
        ELSE IF s.ok THEN StringLiteral(encoding, OptionalDiscriminator(encoding.subs, s.tail))
        ELSE IF d.ok THEN Numbered(encoding, d, Number_parse(d.tail))
        ELSE Named(encoding, Parse("Name", encoding.subs, e.tail))
      Closed(encoding, e) == Kind(encoding, e, consume("s", e.tail), consume("d", e.tail))
      Encoded(encoding) ==
        IF ~encoding.ok THEN encoding
        ELSE Closed(encoding, consume("E", encoding.tail))
      Tagged(z) ==
        IF ~z.ok THEN Err(z.err, st)
        ELSE Encoded(Parse("Encoding", st, z.tail))
  IN Tagged(consume("Z", inp))

\* GR <object name> then `_` or `<seq-id> _`
SpecialName_guard_temporary(st, tail) ==
  LET Indexed(name, seq, su) ==
        IF ~seq.ok THEN Err(seq.err, name.subs)
        ELSE IF ~su.ok THEN Err(su.err, name.subs)
        ELSE Ok(Node("SpecialName", "GuardTemporary", <<seq.val + 1>>, <<name.val>>),
                su.tail, name.subs)
      Sequenced(name, seq) == Indexed(name, seq, consume("_", seq.tail))
      First(name, u) ==
        IF u.ok
          THEN Ok(Node("SpecialName", "GuardTemporary", <<0>>, <<name.val>>), u.tail, name.subs)
        ELSE Sequenced(name, SeqId_parse(name.tail))
      Named(name) ==
        IF ~name.ok THEN name
        ELSE First(name, consume("_", name.tail))
  IN Named(Parse("Name", st, tail))

SpecialName_parse(st, inp) ==
  LET head == Slice(inp.s, 1, 2)
      tail == range_from(inp, 2)
      t == consume("T", inp)
      Special(variant, steps, from) == Body_parse("SpecialName", variant, steps, st, from)
  IN IF ~CanSplitAt(inp, 2) THEN Err("UnexpectedEnd", st)
     ELSE IF head = "TV" THEN Special("VirtualTable", <<One("TypeHandle")>>, tail)
     ELSE IF head = "TT" THEN Special("Vtt", <<One("TypeHandle")>>, tail)
     ELSE IF head = "TI" THEN Special("Typeinfo", <<One("TypeHandle")>>, tail)
     ELSE IF head = "TS" THEN Special("TypeinfoName", <<One("TypeHandle")>>, tail)
     ELSE IF head = "Tc"
       THEN Special("VirtualOverrideThunkCovariant",
                    <<One("CallOffset"), One("CallOffset"), One("Encoding")>>, tail)
     ELSE IF head = "GV" THEN Special("Guard", <<One("Name")>>, tail)
     ELSE IF head = "GR" THEN SpecialName_guard_temporary(st, tail)
     ELSE IF t.ok
       THEN Special("VirtualOverrideThunk", <<One("CallOffset"), One("Encoding")>>, t.tail)
     ELSE Err("UnexpectedText", st)

\* An encoding whose name must be a function's: `try!` on the bare function
\* type.
Encoding_parse_function_only(st, inp) ==
  LET name == Parse("Name", st, inp)
      ty == Parse("BareFunctionType", name.subs, name.tail)
      special == Parse("SpecialName", name.subs, inp)
  IN IF name.ok THEN
       IF ty.ok THEN Ok(Node("Encoding", "Function", <<>>, <<name.val, ty.val>>), ty.tail, ty.subs)
       ELSE ty
     ELSE IF ~special.ok THEN special
     ELSE Ok(Node("Encoding", "Special", <<>>, <<special.val>>), special.tail, special.subs)

Encoding_parse(st, inp) ==
  LET name == Parse("Name", st, inp)
      ty == Parse("BareFunctionType", name.subs, name.tail)
      special == Parse("SpecialName", name.subs, inp)
  IN IF name.ok THEN
       IF ty.ok THEN Ok(Node("Encoding", "Function", <<>>, <<name.val, ty.val>>), ty.tail, ty.subs)
       ELSE Ok(Node("Encoding", "Data", <<>>, <<name.val>>), name.tail, ty.subs)
     ELSE IF ~special.ok THEN special
     ELSE Ok(Node("Encoding", "Special", <<>>, <<special.val>>), special.tail, special.subs)

MangledName_parse(st, inp) ==
  LET IsType(ty) ==
        IF ~ty.ok THEN ty
        ELSE Ok(Node("MangledName", "Type", <<>>, <<ty.val>>), ty.tail, ty.subs)
      Encoded(encoding) ==
        IF encoding.ok
          THEN Ok(Node("MangledName", "Encoding", <<>>, <<encoding.val>>),
                  encoding.tail, encoding.subs)
        ELSE IsType(Parse("TypeHandle", encoding.subs, inp))
      Tagged(zz, z) ==
        Encoded(Parse("Encoding", st, IF zz.ok THEN zz.tail ELSE IF z.ok THEN z.tail ELSE inp))
  IN Tagged(consume("__Z", inp), consume("_Z", inp))

\* <P as Parse>::parse(subs, input): the production named P
Parse_production(P, st, inp) ==
  CASE P = "Name" -> Name_parse(st, inp)
    [] P = "NestedName" -> NestedName_parse(st, inp)
    [] P = "UnscopedTemplateNameHandle" -> UnscopedTemplateNameHandle_parse(st, inp)
    [] P = "LocalName" -> LocalName_parse(st, inp)
    [] P = "TypeHandle" -> TypeHandle_parse(st, inp)
    [] P = "FunctionType" -> FunctionType_parse(st, inp)
    [] P = "BareFunctionType" -> BareFunctionType_parse(st, inp)
    [] P = "Decltype" -> Decltype_parse(st, inp)
    [] P = "ClassEnumType" -> ClassEnumType_parse(st, inp)
    [] P = "ArrayType" -> ArrayType_parse(st, inp)
    [] P = "PointerToMemberType" -> PointerToMemberType_parse(st, inp)
    [] P = "TemplateArgs" -> TemplateArgs_parse(st, inp)
    [] P = "TemplateArg" -> TemplateArg_parse(st, inp)
    [] P = "Expression" -> Expression_parse(st, inp)
    [] P = "ExprPrimary" -> ExprPrimary_parse(st, inp)
    [] P = "Encoding" -> Encoding_parse(st, inp)
    [] P = "MangledName" -> MangledName_parse(st, inp)
    [] P = "SpecialName" -> SpecialName_parse(st, inp)
    [] P = "UnresolvedName" -> UnresolvedName_parse(st, inp)
    [] P = "UnresolvedTypeHandle" -> UnresolvedTypeHandle_parse(st, inp)
    [] P = "UnresolvedQualifierLevel" -> UnresolvedQualifierLevel_parse(st, inp)
    [] P = "SimpleId" -> SimpleId_parse(st, inp)
    [] P = "BaseUnresolvedName" -> BaseUnresolvedName_parse(st, inp)
    [] P = "DestructorName" -> DestructorName_parse(st, inp)
    [] P = "Initializer" -> Initializer_parse(st, inp)
    [] P = "CallOffset" -> CallOffset_parse(st, inp)
    [] P = "Substitution" -> Substitution_parse(st, inp)
    [] P = "OperatorName" -> OperatorName_parse(st, inp)
    [] P = "CtorDtorName" -> CtorDtorName_parse(st, inp)
    [] P = "RefQualifier" -> RefQualifier_parse(st, inp)
    [] P = "StandardBuiltinType" -> StandardBuiltinType_parse(st, inp)
    [] P = "WellKnownComponent" -> WellKnownComponent_parse(st, inp)
    [] P = "Identifier" -> Identifier_parse(st, inp)
    [] P = "SourceName" -> SourceName_parse(st, inp)
    [] P = "UnnamedTypeName" -> UnnamedTypeName_parse(st, inp)
    [] P = "UnqualifiedName" -> UnqualifiedName_parse(st, inp)
    [] P = "NvOffset" -> NvOffset_parse(st, inp)
    [] P = "VOffset" -> VOffset_parse(st, inp)
    [] P = "CvQualifiers" -> CvQualifiers_parse(st, inp)
    [] P = "BuiltinType" -> BuiltinType_parse(st, inp)
    [] P = "TemplateParam" -> TemplateParam_parse(st, inp)
    [] P = "TemplateTemplateParamHandle" -> TemplateTemplateParamHandle_parse(st, inp)
    [] P = "FunctionParam" -> FunctionParam_parse(st, inp)
    [] P = "UnscopedName" -> UnscopedName_parse(st, inp)
    [] P = "PrefixHandle" -> PrefixHandle_parse(st, inp)
    [] P = "Discriminator" -> Discriminator_parse(st, inp)

\* A call of <P as Parse>::parse, entered in the history and taken out of it
\* on return.  A call that would not end is cut short.
Parse(P, st, inp) ==
  IF st.stalled \/ Stalls(st, P, inp) THEN Err("Stalled", Stalled(st))
  ELSE Left(Parse_production(P, Entered(st, P, inp), inp))

----------------------------------------------------------------------------
(* The renderer.  Every rendering operator takes the DemangleContext and    *)
(* returns it.  Once ctx.status is not "Ok" an operator returns the context *)
(* as it is: the early return of `try!`.  The statuses "Panic" and          *)
(* "StackOverflow" are aborts of the process, the others are returned       *)
(* errors.                                                                  *)

RECURSIVE Demangle(_, _, _, _), DemangleWithInner(_, _, _, _, _),
          DemangleSeq(_, _, _, _, _), GetTemplateArgs(_, _)

\* The room of a sink that takes every byte (a Vec<u8>).
Unbounded == -1

\* DemangleContext::new.  `room` is the number of bytes the sink `out` still
\* takes.  The fields `handles`, `qualifiers` and `failed_at` are histories of
\* the model, not of the program: one record per back reference the renderer
\* came back from, one per cv-qualifiers rendered, and the length of the
\* output when the error was returned.
DemangleContext_new(st, bytes) ==
  [subs |-> st, input |-> bytes, out |-> "", room |-> Unbounded, bytes_written |-> 0,
   last_byte_written |-> "", mark_bits |-> {}, status |-> "Ok", handles |-> <<>>,
   qualifiers |-> <<>>, failed_at |-> -1]

\* DemangleContext::new on a sink of `room` bytes (a &mut [u8])
DemangleContext_bounded(st, bytes, room) ==
  [DemangleContext_new(st, bytes) EXCEPT !.room = room]

Failed(ctx) == ctx.status # "Ok"

Aborted(ctx) == ctx.status \in {"Panic", "StackOverflow"}

\* return Err(e)
fail(ctx, e) ==
  IF Failed(ctx) THEN ctx ELSE [ctx EXCEPT !.status = e, !.failed_at = Len(ctx.out)]

\* write_all through io::Write::write for DemangleContext that goes on after
\* an error: the `?`/try! of an earlier write left out.
write_after_error(ctx, buf) ==
  [ctx EXCEPT !.out = @ \o buf,
              !.last_byte_written = At(buf, Len(buf)),
              !.bytes_written = @ + Len(buf)]

\* write!(ctx, ..): write_all through io::Write::write for DemangleContext.
\* A sink with room for all of buf takes it; a sink with less room takes what
\* fits, its next write returns Ok(0), and write_all returns WriteZero.
write(ctx, buf) ==
  IF Failed(ctx) \/ buf = "" THEN ctx
  ELSE IF ctx.room # Unbounded /\ Len(buf) > ctx.room
    THEN fail([ctx EXCEPT !.out = @ \o Slice(buf, 1, ctx.room),
                          !.last_byte_written = At(buf, Len(buf)),
                          !.bytes_written = @ + ctx.room,
                          !.room = 0],
              "WriteZero")
  ELSE [ctx EXCEPT !.out = @ \o buf,
                   !.last_byte_written = At(buf, Len(buf)),
                   !.bytes_written = @ + Len(buf),
                   !.room = IF @ = Unbounded THEN @ ELSE @ - Len(buf)]

ensure_space(ctx) == IF ctx.last_byte_written = " " THEN ctx ELSE write(ctx, " ")

set_mark_bit(ctx, idx) == [ctx EXCEPT !.mark_bits = @ \cup {idx}]

clear_mark_bit(ctx, idx) == [ctx EXCEPT !.mark_bits = @ \ {idx}]

mark_bit_is_set(ctx, idx) == idx \in ctx.mark_bits

\* History: the handle for entry idx returned; `before` are the mark bits it
\* was entered with, `during` those the entry was rendered with.
Returned(ctx, idx, before, during) ==
  [ctx EXCEPT !.handles = Append(@, [idx |-> idx, before |-> before, during |-> during,
                                     after |-> ctx.mark_bits, status |-> ctx.status])]

\* ArgStackExt::push: the new resolver goes on top
push(stack, item) == <<item>> \o stack

\* Resolvers of the stack, top first, that have an idx-th template argument.
Resolving(stack, idx) == {i \in 1..Len(stack) : idx < Len(stack[i].kids)}

\* get_template_arg of the stack: the first resolver that answers, else None
get_template_arg(stack, idx) ==
  IF Resolving(stack, idx) = {} THEN None
  ELSE stack[CHOOSE i \in Resolving(stack, idx) : \A j \in Resolving(stack, idx) : i <= j].kids[idx + 1]

\* get_function_arg of the stack: every resolver is a TemplateArgs, whose
\* get_function_arg is Err, so no resolver ever answers
get_function_arg(stack, idx) == None

\* Result<&TemplateArg> and Result<&Type> of a lookup
Found(arg) == [ok |-> TRUE, val |-> arg, err |-> ""]

NotFound(e) == [ok |-> FALSE, val |-> None, err |-> e]

\* ArgResolver for TemplateArgs: self.0.get(idx).ok_or(...)
TemplateArgs_get_template_arg(self, idx) ==
  IF idx < Len(self.kids) THEN Found(self.kids[idx + 1])
  ELSE NotFound("BadTemplateArgReference")

TemplateArgs_get_function_arg(self, idx) == NotFound("BadFunctionArgReference")

\* A walk of the stack that starts at its bottom.
RECURSIVE ArgStack_get_template_arg_outermost(_, _)
ArgStack_get_template_arg_outermost(stack, idx) ==
  IF stack = <<>> THEN NotFound("BadTemplateArgReference")
  ELSE LET r == TemplateArgs_get_template_arg(stack[Len(stack)], idx)
       IN IF r.ok THEN r
          ELSE ArgStack_get_template_arg_outermost(SubSeq(stack, 1, Len(stack) - 1), idx)

\* ArgResolver for Option<ArgStack>: `while let Some(s) = stack`, the item on
\* top first, then `s.prev`
RECURSIVE ArgStack_get_template_arg(_, _)
ArgStack_get_template_arg(stack, idx) ==
  IF stack = <<>> THEN NotFound("BadTemplateArgReference")
  ELSE LET r == TemplateArgs_get_template_arg(Head(stack), idx)
       IN IF r.ok THEN r ELSE ArgStack_get_template_arg(Tail(stack), idx)

RECURSIVE ArgStack_get_function_arg(_, _)
ArgStack_get_function_arg(stack, idx) ==
  IF stack = <<>> THEN NotFound("BadFunctionArgReference")
  ELSE LET r == TemplateArgs_get_function_arg(Head(stack), idx)
       IN IF r.ok THEN r ELSE ArgStack_get_function_arg(Tail(stack), idx)

\* A str used as an inner item or printed on its own.
Str(text) == Leaf("str", text)

Concat(a, b) == Node("Concat", "", <<>>, <<a, b>>)

FunctionArgList(types) == Node("FunctionArgList", "", <<>>, types)

\* arg.demangle for each item, `sep` written between two of them
DemangleSeq(items, sep, ctx, stack, depth) ==
  IF items = <<>> \/ Failed(ctx) THEN ctx
  ELSE LET c1 == Demangle(Head(items), ctx, stack, depth)
       IN IF Tail(items) = <<>> THEN c1
          ELSE DemangleSeq(Tail(items), sep, write(c1, sep), stack, depth)

TypeHandle_is_void(handle) ==
  /\ handle.s = "Builtin"
  /\ handle.kids[1].s = "Standard"
  /\ handle.kids[1].kids[1].s = "Void"

\* The argument list without the special case of the lone `void`.
FunctionArgList_demangle_void(self, ctx, stack, depth) ==
  write(DemangleSeq(self.kids, ", ", write(ctx, "("), stack, depth), ")")

\* The argument list with the special case taken whenever the first
\* parameter is `void`, whatever follows it.
FunctionArgList_demangle_first_void(self, ctx, stack, depth) ==
  LET open == write(ctx, "(")
  IN IF Len(self.kids) >= 1 /\ TypeHandle_is_void(self.kids[1]) THEN write(open, ")")
     ELSE write(DemangleSeq(self.kids, ", ", open, stack, depth), ")")

FunctionArgList_demangle(self, ctx, stack, depth) ==
  LET open == write(ctx, "(")
  IN IF Len(self.kids) = 1 /\ TypeHandle_is_void(self.kids[1]) THEN write(open, ")")
     ELSE write(DemangleSeq(self.kids, ", ", open, stack, depth), ")")

Concat_demangle(self, ctx, stack, depth) ==
  Demangle(self.kids[2], Demangle(self.kids[1], ctx, stack, depth), stack, depth)

\* The handle's demangle with `try!` around the entry's demangle: the mark bit
\* is cleared only when the entry rendered without error.
Handle_demangle_try(self, ctx, stack, depth) ==
  LET idx == self.n[1]
      ret == Demangle(subs_index(ctx.subs, idx), set_mark_bit(ctx, idx), stack, depth)
  IN IF self.s # "BackReference" THEN Demangle(self.kids[1], ctx, stack, depth)
     ELSE IF mark_bit_is_set(ctx, idx)
       THEN Returned(fail(ctx, "RecursiveDemangling"), idx, ctx.mark_bits, ctx.mark_bits)
     ELSE IF subs_index_panics(ctx.subs, idx) THEN fail(ctx, "Panic")
     ELSE IF Aborted(ret) THEN ret
     ELSE Returned(IF Failed(ret) THEN ret ELSE clear_mark_bit(ret, idx),
                   idx, ctx.mark_bits, set_mark_bit(ctx, idx).mark_bits)

\* define_handle!: a well-known component, a back reference guarded by its
\* mark bit, or the extra variant (TypeHandle::Builtin)
Handle_demangle(self, ctx, stack, depth) ==
  LET idx == self.n[1]
      ret == Demangle(subs_index(ctx.subs, idx), set_mark_bit(ctx, idx), stack, depth)
  IN IF self.s # "BackReference" THEN Demangle(self.kids[1], ctx, stack, depth)
     ELSE IF mark_bit_is_set(ctx, idx)
       THEN Returned(fail(ctx, "RecursiveDemangling"), idx, ctx.mark_bits, ctx.mark_bits)
     ELSE IF subs_index_panics(ctx.subs, idx) THEN fail(ctx, "Panic")
     ELSE IF Aborted(ret) THEN ret
     ELSE Returned(clear_mark_bit(ret, idx), idx, ctx.mark_bits, set_mark_bit(ctx, idx).mark_bits)

Vocabulary_demangle(table, self, ctx) == write(ctx, Vocabulary_printable(table, self.s))

MangledName_demangle(self, ctx, stack, depth) == Demangle(self.kids[1], ctx, stack, depth)

\* GetTemplateArgs for Name, NestedName, LocalName, PrefixHandle and Prefix
GetTemplateArgs(self, st) ==
  CASE self.k = "Name" /\ self.s = "UnscopedTemplate" -> self.kids[2]
    [] self.k = "Name" /\ self.s \in {"Nested", "Local"} -> GetTemplateArgs(self.kids[1], st)
    [] self.k = "NestedName" -> GetTemplateArgs(self.kids[3], st)
    [] self.k = "LocalName" /\ self.s = "Relative" /\ self.kids[2] # None ->
         GetTemplateArgs(self.kids[2], st)
    [] self.k = "LocalName" /\ self.s = "Default" -> GetTemplateArgs(self.kids[2], st)
    [] self.k = "PrefixHandle" /\ PrefixEntryIs(st, self, {"Template"}) ->
         subs_index(st, self.n[1]).kids[2]
    [] OTHER -> None

\* Encoding::demangle handing the whole bare-function-type to the argument
\* list (`&fun_ty.0[..]`) in the template case too.
Encoding_demangle_all_params(self, ctx, stack, depth) ==
  LET name == self.kids[1]
      fun_ty == self.kids[2]
      template_args == GetTemplateArgs(name, ctx.subs)
      is_template == template_args # None
      stack1 == IF is_template THEN push(stack, template_args) ELSE stack
      function_args == FunctionArgList(fun_ty.kids)
      c1 == IF is_template
            THEN write(Demangle(fun_ty.kids[1], ctx, stack1, depth), " ")
            ELSE ctx
  IN IF self.s # "Function" THEN Demangle(name, ctx, stack, depth)
     ELSE IF name.s = "Nested"
       THEN DemangleWithInner(name.kids[1], function_args, c1, stack1, depth)
     ELSE Demangle(function_args, Demangle(name, c1, stack1, depth), stack1, depth)

Encoding_demangle(self, ctx, stack, depth) ==
  LET name == self.kids[1]
      fun_ty == self.kids[2]
      template_args == GetTemplateArgs(name, ctx.subs)
      is_template == template_args # None
      stack1 == IF is_template THEN push(stack, template_args) ELSE stack
      function_args == FunctionArgList(IF is_template THEN Tail(fun_ty.kids) ELSE fun_ty.kids)
      c1 == IF is_template
            THEN write(Demangle(fun_ty.kids[1], ctx, stack1, depth), " ")
            ELSE ctx
  IN IF self.s # "Function" THEN Demangle(name, ctx, stack, depth)
     ELSE IF name.s = "Nested"
       THEN DemangleWithInner(name.kids[1], function_args, c1, stack1, depth)
     ELSE Demangle(function_args, Demangle(name, c1, stack1, depth), stack1, depth)

Name_demangle(self, ctx, stack, depth) ==
  CASE self.s = "UnscopedTemplate" ->
         Demangle(self.kids[2],
                  Demangle(self.kids[1], ctx, push(stack, self.kids[2]), depth), stack, depth)
    [] self.s = "Std" -> Demangle(self.kids[1], write(ctx, "std::"), stack, depth)
    [] OTHER -> Demangle(self.kids[1], ctx, stack, depth)

UnscopedName_demangle(self, ctx, stack, depth) ==
  IF self.s = "Std" THEN Demangle(self.kids[1], write(ctx, "std::"), stack, depth)
  ELSE Demangle(self.kids[1], ctx, stack, depth)

UnscopedTemplateName_demangle(self, ctx, stack, depth) ==
  Demangle(self.kids[1], ctx, stack, depth)

NestedName_demangle_with_inner(self, inner, ctx, stack, depth) ==
  LET c1 == Demangle(self.kids[3], ctx, stack, depth)
      c2 == IF inner # None THEN Demangle(inner, c1, stack, depth) ELSE c1
      c3 == IF self.kids[1] # CvQualifiers_default
            THEN Demangle(self.kids[1], c2, stack, depth) ELSE c2
  IN IF self.kids[2] # None THEN Demangle(self.kids[2], ensure_space(c3), stack, depth)
     ELSE c3

Prefix_demangle(self, ctx, stack, depth) ==
  CASE self.s = "Nested" ->
         Demangle(self.kids[2], write(Demangle(self.kids[1], ctx, stack, depth), "::"),
                  stack, depth)
    [] self.s \in {"Template", "DataMember"} ->
         Demangle(self.kids[2], Demangle(self.kids[1], ctx, stack, depth), stack, depth)
    [] OTHER -> Demangle(self.kids[1], ctx, stack, depth)

UnqualifiedName_demangle(self, ctx, stack, depth) ==
  IF self.s = "Operator" THEN Demangle(self.kids[1], write(ctx, "operator"), stack, depth)
  ELSE Demangle(self.kids[1], ctx, stack, depth)

SourceName_demangle(self, ctx, stack, depth) == Demangle(self.kids[1], ctx, stack, depth)

\* &ctx.input[self.start..self.end]
Identifier_demangle(self, ctx) == write(ctx, Slice(ctx.input, self.n[1] + 1, self.n[2]))

UnnamedTypeName_demangle(self, ctx) ==
  write(ctx, "{unnamed type " \o ToString(IF self.n = <<>> THEN 0 ELSE self.n[1] + 1) \o "}")

CallOffset_demangle(self, ctx) ==
  IF self.s = "NonVirtual"
  THEN write(ctx, "{offset(" \o ToString(self.kids[1].n[1]) \o ")}")
  ELSE write(ctx, "{virtual offset(" \o ToString(self.kids[1].n[1]) \o ", "
                    \o ToString(self.kids[1].n[2]) \o ")}")

\* History: the qualifiers `self` were rendered onto an output of `at` bytes.
QualifiersRendered(ctx, self, at) ==
  IF Failed(ctx) THEN ctx
  ELSE [ctx EXCEPT !.qualifiers = Append(@, [at |-> at, upto |-> Len(ctx.out),
                                             quals |-> self.n])]

CvQualifiers_demangle(self, ctx) ==
  LET c1 == IF self.n[3] = 1 THEN write(ensure_space(ctx), "const") ELSE ctx
      c2 == IF self.n[2] = 1 THEN write(ensure_space(c1), "volatile") ELSE c1
      c3 == IF self.n[1] = 1 THEN write(ensure_space(c2), "restrict") ELSE c2
  IN QualifiersRendered(c3, self, Len(ctx.out))

BuiltinType_demangle(self, ctx, stack, depth) == Demangle(self.kids[1], ctx, stack, depth)

TemplateParam_demangle(self, ctx, stack, depth) ==
  LET arg == get_template_arg(stack, self.n[1])
  IN IF arg = None THEN fail(ctx, "BadTemplateArgReference")
     ELSE Demangle(arg, ctx, stack, depth)

TemplateTemplateParam_demangle(self, ctx, stack, depth) ==
  Demangle(self.kids[1], ctx, stack, depth)

FunctionParam_demangle(self, ctx, stack, depth) ==
  LET ty == get_function_arg(stack, self.n[1])
  IN IF ty = None THEN fail(ctx, "BadFunctionArgReference")
     ELSE Demangle(ty, ctx, stack, depth)

TemplateArgs_demangle(self, ctx, stack, depth) ==
  write(DemangleSeq(self.kids, ", ", write(ctx, "<"), stack, depth), ">")

TemplateArg_demangle(self, ctx, stack, depth) ==
  IF self.s = "ArgPack" THEN DemangleSeq(self.kids, ", ", ctx, stack, depth)
  ELSE Demangle(self.kids[1], ctx, stack, depth)

LocalName_demangle(self, ctx, stack, depth) ==
  LET encoding == Demangle(self.kids[1], ctx, stack, depth)
  IN IF self.s = "Default" THEN encoding
     ELSE IF self.kids[2] = None THEN write(encoding, "::string literal")
     ELSE Demangle(self.kids[2], write(encoding, "::"), stack, depth)

\* The Type behind `ty` when it is of one of the given variants, else None.
TypeBehind(ctx, ty, variants) ==
  IF get_type(ctx.subs, ty) # None /\ get_type(ctx.subs, ty).s \in variants
  THEN get_type(ctx.subs, ty) ELSE None

\* demangle_pointer, and the same match in the LvalueRef and RvalueRef arms:
\* arrays and functions take the pointer as their inner item
Type_demangle_pointer(ty, inner, ctx, stack, depth) ==
  LET target == TypeBehind(ctx, ty, {"Array", "Function"})
  IN IF target # None THEN DemangleWithInner(target.kids[1], inner, ctx, stack, depth)
     ELSE Demangle(inner, Demangle(ty, ctx, stack, depth), stack, depth)

Type_demangle_with_inner(self, inner, ctx, stack, depth) ==
  LET first == Demangle(self.kids[1], ctx, stack, depth)
      pointee == TypeBehind(ctx, self.kids[2], {"PointerTo"})
      vendor == Demangle(self.kids[1],
                         write(Demangle(self.kids[3], ctx, stack, depth), " "), stack, depth)
  IN CASE self.s = "TemplateTemplate" -> Demangle(self.kids[2], first, stack, depth)
       [] self.s = "Qualified" ->
            IF pointee # None
            THEN DemangleWithInner(pointee, self.kids[1], ctx, stack, depth)
            ELSE Demangle(self.kids[1],
                          write(Demangle(self.kids[2], ctx, stack, depth), " "), stack, depth)
       [] self.s = "PointerTo" ->
            Type_demangle_pointer(self.kids[1],
              IF inner # None THEN Concat(Str("* "), inner) ELSE Str("*"), ctx, stack, depth)
       [] self.s = "LvalueRef" -> Type_demangle_pointer(self.kids[1], Str("&"), ctx, stack, depth)
       [] self.s = "RvalueRef" -> Type_demangle_pointer(self.kids[1], Str("&&"), ctx, stack, depth)
       [] self.s = "Complex" -> write(first, " _Complex")
       [] self.s = "Imaginary" -> write(first, " _Imaginary")
       [] self.s = "VendorExtension" ->
            IF self.kids[2] # None THEN Demangle(self.kids[2], vendor, stack, depth) ELSE vendor
       [] self.s = "PackExpansion" -> write(first, "...")
       [] OTHER -> first

FunctionType_demangle_with_inner(self, inner, ctx, stack, depth) ==
  Demangle(self.kids[1], DemangleWithInner(self.kids[2], inner, ctx, stack, depth), stack, depth)

\* BareFunctionType::ret and ::args
BareFunctionType_ret(self) == self.kids[1]

BareFunctionType_args(self) == Tail(self.kids)

BareFunctionType_demangle_with_inner(self, inner, ctx, stack, depth) ==
  LET c1 == ensure_space(Demangle(BareFunctionType_ret(self), ctx, stack, depth))
      c2 == IF inner # None
            THEN write(Demangle(inner, write(c1, "("), stack, depth), ")") ELSE c1
  IN Demangle(FunctionArgList(BareFunctionType_args(self)), c2, stack, depth)

ArrayType_demangle_with_inner(self, inner, ctx, stack, depth) ==
  LET ty == Demangle(self.kids[Len(self.kids)], ctx, stack, depth)
      c1 == IF inner # None
            THEN write(Demangle(inner, write(ty, " ("), stack, depth), ") [")
            ELSE write(ty, " [")
  IN CASE self.s = "DimensionNumber" -> write(c1, ToString(self.n[1]) \o "]")
       [] self.s = "DimensionExpression" ->
            write(Demangle(self.kids[1], c1, stack, depth), "]")
       [] self.s = "NoDimension" -> write(c1, "]")

PointerToMemberType_demangle(self, ctx, stack, depth) ==
  LET func == TypeBehind(ctx, self.kids[2], {"Function"})
      member == Demangle(self.kids[2], ctx, stack, depth)
  IN IF func # None
     THEN DemangleWithInner(func.kids[1], Concat(self.kids[1], Str("::*")), ctx, stack, depth)
     ELSE write(Demangle(self.kids[1], write(member, " "), stack, depth), "::*")

Decltype_demangle(self, ctx, stack, depth) ==
  write(Demangle(self.kids[1], write(ctx, "decltype ("), stack, depth), ")")

ClassEnumType_demangle(self, ctx, stack, depth) ==
  LET keyword == CASE self.s = "ElaboratedStruct" -> "class "
                   [] self.s = "ElaboratedUnion" -> "union "
                   [] self.s = "ElaboratedEnum" -> "enum "
                   [] OTHER -> ""
  IN Demangle(self.kids[1], write(ctx, keyword), stack, depth)

\* The pieces an Expression or SpecialName prints, in order: a literal
\* write, the i-th child, the i-th child when it is Some, or the items of
\* the i-th child separated by ", ".
W(text) == [t |-> "write", v |-> text]

K(i) == [t |-> "kid", v |-> i]

O(i) == [t |-> "option", v |-> i]

L(i) == [t |-> "list", v |-> i]

RECURSIVE Pieces_demangle(_, _, _, _, _), Levels_demangle(_, _, _, _)

Pieces_demangle(pieces, self, ctx, stack, depth) ==
  IF pieces = <<>> \/ Failed(ctx) THEN ctx
  ELSE LET p == Head(pieces)
           c1 == CASE p.t = "write" -> write(ctx, p.v)
                   [] p.t = "kid" -> Demangle(self.kids[p.v], ctx, stack, depth)
                   [] p.t = "option" ->
                        IF self.kids[p.v] # None
                        THEN Demangle(self.kids[p.v], ctx, stack, depth) ELSE ctx
                   [] p.t = "list" ->
                        DemangleSeq(self.kids[p.v].kids, ", ", ctx, stack, depth)
       IN Pieces_demangle(Tail(pieces), self, c1, stack, depth)

Expression_new(keyword) == <<W(keyword \o " ("), L(1), W(") "), K(2), O(3)>>

Expression_cast(keyword) == <<W(keyword \o "<"), K(1), W(">("), K(2), W(")")>>

Expression_call(keyword) == <<W(keyword \o " ("), K(1), W(")")>>

Expression_pieces(self) ==
  CASE self.s = "Unary" -> <<K(1), W(" "), K(2)>>
    [] self.s = "Binary" -> <<W("("), K(2), W(")"), K(1), W("("), K(3), W(")")>>
    [] self.s = "Ternary" /\ self.kids[1].s = "Question" ->
         <<K(2), W(" ? "), K(3), W(" : "), K(4)>>
    [] self.s = "Ternary" /\ self.kids[1].s # "Question" ->
         <<K(1), W("("), K(2), W(", "), K(3), W(", "), K(4), W(")")>>
    [] self.s = "PrefixInc" -> <<W("++"), K(1)>>
    [] self.s = "PrefixDec" -> <<W("--"), K(1)>>
    [] self.s = "Call" -> <<W("("), K(1), W(")("), L(2), W(")")>>
    [] self.s = "ConversionOne" -> <<K(1), W("("), K(2), W(")")>>
    [] self.s = "ConversionMany" -> <<K(1), W("("), L(2), W(")")>>
    [] self.s = "ConversionBraced" -> <<K(1), W("{"), L(2), W("}")>>
    [] self.s = "BracedInitList" -> <<W("{"), K(1), W("}")>>
    [] self.s = "New" -> Expression_new("new")
    [] self.s = "GlobalNew" -> Expression_new("::new")
    [] self.s = "NewArray" -> Expression_new("new[]")
    [] self.s = "GlobalNewArray" -> Expression_new("::new[]")
    [] self.s = "Delete" -> <<W("delete "), K(1)>>
    [] self.s = "GlobalDelete" -> <<W("::delete "), K(1)>>
    [] self.s = "DeleteArray" -> <<W("delete[] "), K(1)>>
    [] self.s = "GlobalDeleteArray" -> <<W("::delete[] "), K(1)>>
    [] self.s = "DynamicCast" -> Expression_cast("dynamic_cast")
    [] self.s = "StaticCast" -> Expression_cast("static_cast")
    [] self.s = "ConstCast" -> Expression_cast("const_cast")
    [] self.s = "ReinterpretCast" -> Expression_cast("reinterpret_cast")
    [] self.s \in {"TypeidType", "TypeidExpr"} -> Expression_call("typeid")
    [] self.s \in {"SizeofType", "SizeofExpr"} -> Expression_call("sizeof")
    [] self.s \in {"AlignofType", "AlignofExpr"} -> Expression_call("alignof")
    [] self.s = "Noexcept" -> Expression_call("noexcept")
    [] self.s = "Member" -> <<K(1), W("."), K(2)>>
    [] self.s = "DerefMember" -> <<K(1), W("->"), K(2)>>
    [] self.s = "PointerToMember" -> <<K(1), W(".*"), K(2)>>
    [] self.s \in {"SizeofTemplatePack", "SizeofFunctionPack"} ->
         <<W("sizeof...("), K(1), W(")")>>
    [] self.s = "SizeofCapturedTemplatePack" -> <<W("sizeof...("), L(1), W(")")>>
    [] self.s = "PackExpansion" -> <<K(1), W("...")>>
    [] self.s = "Throw" -> <<W("throw "), K(1)>>
    [] self.s = "Rethrow" -> <<W("throw")>>
    [] self.s \in {"TemplateParam", "FunctionParam", "UnresolvedName", "Primary"} -> <<K(1)>>

Expression_demangle(self, ctx, stack, depth) ==
  Pieces_demangle(Expression_pieces(self), self, ctx, stack, depth)

\* for lvl in levels { write "::"; lvl.demangle }
Levels_demangle(levels, ctx, stack, depth) ==
  IF levels = <<>> \/ Failed(ctx) THEN ctx
  ELSE Levels_demangle(Tail(levels), Demangle(Head(levels), write(ctx, "::"), stack, depth),
                       stack, depth)

UnresolvedName_demangle(self, ctx, stack, depth) ==
  LET last == self.kids[Len(self.kids)]
      levels == self.kids[Len(self.kids) - 1].kids
  IN CASE self.s = "Name" -> Demangle(last, ctx, stack, depth)
       [] self.s = "Global" -> Demangle(last, write(ctx, "::"), stack, depth)
       [] self.s = "Nested1" ->
            Demangle(last, Levels_demangle(levels, Demangle(self.kids[1], ctx, stack, depth),
                                           stack, depth), stack, depth)
       [] self.s = "Nested2" ->
            Demangle(last, Levels_demangle(levels, ctx, stack, depth), stack, depth)
       [] self.s = "GlobalNested2" ->
            Demangle(last, Levels_demangle(levels, write(ctx, "::"), stack, depth), stack, depth)

UnresolvedType_demangle(self, ctx, stack, depth) ==
  LET args == self.kids[2]
  IN IF self.s = "Decltype" \/ args = None THEN Demangle(self.kids[1], ctx, stack, depth)
     ELSE Demangle(args, Demangle(self.kids[1], ctx, push(stack, args), depth),
                   push(stack, args), depth)

UnresolvedQualifierLevel_demangle(self, ctx, stack, depth) ==
  Demangle(self.kids[1], ctx, stack, depth)

\* A production followed by its optional template-args: SimpleId and
\* BaseUnresolvedName::Operator
WithOptionalArgs_demangle(self, ctx, stack, depth) ==
  LET c1 == Demangle(self.kids[1], ctx, stack, depth)
  IN IF self.kids[2] # None THEN Demangle(self.kids[2], c1, stack, depth) ELSE c1

BaseUnresolvedName_demangle(self, ctx, stack, depth) ==
  IF self.s = "Operator" THEN WithOptionalArgs_demangle(self, ctx, stack, depth)
  ELSE Demangle(self.kids[1], ctx, stack, depth)

DestructorName_demangle(self, ctx, stack, depth) ==
  Demangle(self.kids[1], write(ctx, "~"), stack, depth)

ExprPrimary_is_nullptr(self) ==
  /\ self.kids[1].s = "Builtin"
  /\ self.kids[1].kids[1].s = "Standard"
  /\ self.kids[1].kids[1].kids[1].s = "Nullptr"

ExprPrimary_demangle(self, ctx, stack, depth) ==
  IF self.s = "External" THEN Demangle(self.kids[1], ctx, stack, depth)
  ELSE IF ExprPrimary_is_nullptr(self) THEN write(ctx, "nullptr")
  ELSE IF self.n[1] = self.n[2] THEN Demangle(self.kids[1], ctx, stack, depth)
  ELSE write(ctx, Slice(ctx.input, self.n[1] + 1, self.n[2]))

Initializer_demangle(self, ctx, stack, depth) ==
  Pieces_demangle(<<W("("), L(1), W(")")>>, self, ctx, stack, depth)

SpecialName_pieces(self) ==
  CASE self.s = "VirtualTable" -> <<W("{vtable("), K(1), W(")}")>>
    [] self.s = "Vtt" -> <<W("{vtt("), K(1), W(")}")>>
    [] self.s = "Typeinfo" -> <<W("typeinfo for "), K(1)>>
    [] self.s = "TypeinfoName" -> <<W("{typeinfo name("), K(1), W(")}")>>
    [] self.s = "VirtualOverrideThunk" ->
         <<W("{virtual override thunk("), K(1), W(", "), K(2), W(")}")>>
    [] self.s = "VirtualOverrideThunkCovariant" ->
         <<W("{virtual override thunk("), K(1), W(", "), K(2), W(", "), K(3), W(")}")>>
    [] self.s = "Guard" -> <<W("{static initialization guard("), K(1), W(")}")>>
    [] self.s = "GuardTemporary" ->
         <<W("{static initialization guard temporary("), K(1),
           W(", " \o ToString(self.n[1]) \o ")}")>>

SpecialName_demangle(self, ctx, stack, depth) ==
  Pieces_demangle(SpecialName_pieces(self), self, ctx, stack, depth)

HandleKinds ==
  {"TypeHandle", "PrefixHandle", "UnscopedTemplateNameHandle",
   "TemplateTemplateParamHandle", "UnresolvedTypeHandle"}

WithInnerKinds == {"Type", "FunctionType", "BareFunctionType", "ArrayType", "NestedName"}

\* <T as DemangleWithInner>::demangle_with_inner(inner, ctx, stack)
DemangleWithInner(self, inner, ctx, stack, depth) ==
  IF Failed(ctx) THEN ctx
  ELSE IF depth >= MaxDepth THEN fail(ctx, "StackOverflow")
  ELSE CASE self.k = "Type" -> Type_demangle_with_inner(self, inner, ctx, stack, depth + 1)
         [] self.k = "FunctionType" ->
              FunctionType_demangle_with_inner(self, inner, ctx, stack, depth + 1)
         [] self.k = "BareFunctionType" ->
              BareFunctionType_demangle_with_inner(self, inner, ctx, stack, depth + 1)
         [] self.k = "ArrayType" ->
              ArrayType_demangle_with_inner(self, inner, ctx, stack, depth + 1)
         [] self.k = "NestedName" ->
              NestedName_demangle_with_inner(self, inner, ctx, stack, depth + 1)

\* <T as Demangle>::demangle(ctx, stack); `depth` counts the demangle calls
\* that are on the native stack
Demangle(self, ctx, stack, depth) ==
  IF Failed(ctx) THEN ctx
  ELSE IF depth >= MaxDepth THEN fail(ctx, "StackOverflow")
  ELSE LET d == depth + 1
       IN CASE self.k \in WithInnerKinds -> DemangleWithInner(self, None, ctx, stack, d)
            [] self.k \in HandleKinds -> Handle_demangle(self, ctx, stack, d)
            [] self.k = "str" -> write(ctx, self.s)
            [] self.k = "Concat" -> Concat_demangle(self, ctx, stack, d)
            [] self.k = "FunctionArgList" -> FunctionArgList_demangle(self, ctx, stack, d)
            [] self.k = "OperatorName" -> Vocabulary_demangle(OperatorName_table, self, ctx)
            [] self.k = "CtorDtorName" -> Vocabulary_demangle(CtorDtorName_table, self, ctx)
            [] self.k = "RefQualifier" -> Vocabulary_demangle(RefQualifier_table, self, ctx)
            [] self.k = "StandardBuiltinType" ->
                 Vocabulary_demangle(StandardBuiltinType_table, self, ctx)
            [] self.k = "WellKnownComponent" ->
                 Vocabulary_demangle(WellKnownComponent_table, self, ctx)
            [] self.k = "MangledName" -> MangledName_demangle(self, ctx, stack, d)
            [] self.k = "Encoding" -> Encoding_demangle(self, ctx, stack, d)
            [] self.k = "Name" -> Name_demangle(self, ctx, stack, d)
            [] self.k = "UnscopedName" -> UnscopedName_demangle(self, ctx, stack, d)
            [] self.k = "UnscopedTemplateName" ->
                 UnscopedTemplateName_demangle(self, ctx, stack, d)
            [] self.k = "Prefix" -> Prefix_demangle(self, ctx, stack, d)
            [] self.k = "UnqualifiedName" -> UnqualifiedName_demangle(self, ctx, stack, d)
            [] self.k \in {"SourceName", "DataMemberPrefix"} ->
                 SourceName_demangle(self, ctx, stack, d)
            [] self.k = "Identifier" -> Identifier_demangle(self, ctx)
            [] self.k = "UnnamedTypeName" -> UnnamedTypeName_demangle(self, ctx)
            [] self.k = "CallOffset" -> CallOffset_demangle(self, ctx)
            [] self.k = "CvQualifiers" -> CvQualifiers_demangle(self, ctx)
            [] self.k = "BuiltinType" -> BuiltinType_demangle(self, ctx, stack, d)
            [] self.k = "TemplateParam" -> TemplateParam_demangle(self, ctx, stack, d)
            [] self.k = "TemplateTemplateParam" ->
                 TemplateTemplateParam_demangle(self, ctx, stack, d)
            [] self.k = "FunctionParam" -> FunctionParam_demangle(self, ctx, stack, d)
            [] self.k = "TemplateArgs" -> TemplateArgs_demangle(self, ctx, stack, d)
            [] self.k = "TemplateArg" -> TemplateArg_demangle(self, ctx, stack, d)
            [] self.k = "LocalName" -> LocalName_demangle(self, ctx, stack, d)
            [] self.k = "PointerToMemberType" ->
                 PointerToMemberType_demangle(self, ctx, stack, d)
            [] self.k = "Decltype" -> Decltype_demangle(self, ctx, stack, d)
            [] self.k = "ClassEnumType" -> ClassEnumType_demangle(self, ctx, stack, d)
            [] self.k = "Expression" -> Expression_demangle(self, ctx, stack, d)
            [] self.k = "UnresolvedName" -> UnresolvedName_demangle(self, ctx, stack, d)
            [] self.k = "UnresolvedType" -> UnresolvedType_demangle(self, ctx, stack, d)
            [] self.k = "UnresolvedQualifierLevel" ->
                 UnresolvedQualifierLevel_demangle(self, ctx, stack, d)
            [] self.k = "SimpleId" -> WithOptionalArgs_demangle(self, ctx, stack, d)
            [] self.k = "BaseUnresolvedName" -> BaseUnresolvedName_demangle(self, ctx, stack, d)
            [] self.k = "DestructorName" -> DestructorName_demangle(self, ctx, stack, d)
            [] self.k = "ExprPrimary" -> ExprPrimary_demangle(self, ctx, stack, d)
            [] self.k = "Initializer" -> Initializer_demangle(self, ctx, stack, d)
            [] self.k = "SpecialName" -> SpecialName_demangle(self, ctx, stack, d)

----------------------------------------------------------------------------
(* The symbols the model is run on. *)

\* Base-36 numeral of n, the way a <seq-id> writes it.
RECURSIVE SeqIdOf(_)
SeqIdOf(n) ==
  IF n < 36 THEN At(Digits36, n + 1)
  ELSE SeqIdOf(n \div 36) \o At(Digits36, (n % 36) + 1)

\* The scenario table of the demangle tests.
Seeds ==
  {"_Z3foo", "_Z3fooi", "_Z3foov", "_ZN3foo3barEv", "_ZN3foo3barIiEEvT_",
   "_Z3fooPKi", "_ZTI3foo", "_ZGV3foo"}

Names == {"1a", "N1a1bE", "1aIiE", "N1a1bIiEE"}

ArgTypes == {"i", "PKi", "S_", "T_"}

\* The concatenations of at most n types.
RECURSIVE ArgLists(_)
ArgLists(n) ==
  IF n = 0 THEN {""}
  ELSE LET shorter == ArgLists(n - 1)
       IN shorter \cup {args \o ty : args \in shorter, ty \in ArgTypes}

Generated == {"_Z" \o name \o args : name \in Names, args \in ArgLists(MaxArgs)}

\* Nested names with every kind of last prefix.
NestedProbes ==
  {"_ZNStE", "_ZN1aE", "_ZNT_E", "_ZNS_E", "_ZN1aDtT_EE", "_ZN1a1bMEv",
   "_ZN1aIiEEv", "_ZNK1a1bEv", "_ZNKR1a1bEv", "_Z1aPiNS_E", "_ZN1a1bENS_E",
   "_ZNSt1aE", "_ZN1a1bENS0_1cE"}

\* Substitutions in and out of the table, and at the edge of the word.
SubstitutionProbes ==
  {"_ZN1a1bES_S0_S_", "_ZN1a1bES1_", "_Z1aS_", "_Z1aSt", "_ZN1a1bES00_",
   "_ZN1a1bES" \o SeqIdOf(ISIZE_MAX) \o "_",
   "_ZN1a1bES" \o SeqIdOf(ISIZE_MAX + 1) \o "_"}

\* References to template and function parameters.
ParamProbes ==
  {"_Z1aIXT_EEv", "_Z1aIT_Ev", "_Z1aIKPT_Ev", "_ZN1a1bIT_EEvv", "_Z1aIT_E",
   "_Z1aIiEvT0_", "_Z1aIiiET0_T_", "_Z1aDtfp_E", "_Z1aiDtfp_E", "_Z1aIiEDtfp_ET_",
   "_Z1aDtfL0p_E", "_Z1aDtfp0_E",
   "_Z1aT" \o ToString(ISIZE_MAX) \o "_",
   "_Z1aT" \o ToString(ISIZE_MAX - 1) \o "_",
   "_Z1aIiEvT" \o ToString(ISIZE_MAX) \o "_"}

\* Operator names as function names.
OperatorProbes == {"_Znwm", "_Zplii", "_ZdlPv", "_ZN1aplEi"}

\* Encodings and bare types without a marker, with `_Z` and with `__Z`.
MarkerProbes == {"i", "_Zi", "__Zi", "Pi", "_ZPi", "1av", "__Z1av", "__Z1aIiEvv"}

\* Literals as template arguments: with bytes, without bytes, nullptr.
LiteralProbes == {"_Z1aILi1EEv", "_Z1aILiEEv", "_Z1aILDnEEv", "_Z1aILin12EEv", "_Z1aIL1bEEv"}

\* Parameter lists with `void` in and out of the only position.
ArgListProbes == {"_Z1avi", "_Z1aiv", "_Z1aKv", "_Z1aPv", "_Z1aiii", "_Z1aIiEv"}

\* Qualifiers behind types, pointers, functions, nested names and template
\* parameters, the last also with arguments whose text is empty or ends in a
\* space.
QualifierProbes ==
  {"_Z1aKVi", "_Z1arVKi", "_Z1aKPVi", "_Z1aPrKi", "_ZNVK1a1bEv", "_Z1aPKFvvE",
   "_Z1aIJEEvKT_", "_Z1aIJEXdlT_EEvKT0_"}

\* Productions inside themselves: expressions, argument packs, a local name
\* with its encoding, array, function and pointer-to-member types.
RecursionProbes ==
  {"_Z1aIXplLi1ELi2EEEv", "_Z1aIJiiEEv", "_ZZ1avE1b", "_Z1aA3_i", "_Z1aPFivE", "_Z1aM1bi"}

\* A substitution, a well-known component and a template parameter in front
\* of template arguments, and in front of `I` with no arguments behind it.
TemplateTemplateProbes ==
  {"_ZN1a1bEvS_IiE", "_Z1avT_IiE", "_Z1avSaIiE", "_Z1avStIiE", "_ZN1a1bEvS_IX",
   "_Z1avT_IX", "_Z1aIiEvT_IT_E"}

\* `I` behind every kind of prefix, and behind none.
TemplatePrefixProbes ==
  {"_ZN1aIiEIiEE", "_ZN1aDtT_EIiEE", "_ZN1a1bMIiEE", "_ZNSaIiEE", "_Z1aPiNS_IiEE",
   "_ZNIiEE", "_ZNT_IiEE", "_ZN1a1bIiEIiEE"}

Symbols ==
  Seeds \cup Generated \cup NestedProbes \cup SubstitutionProbes \cup ParamProbes
    \cup OperatorProbes \cup MarkerProbes \cup LiteralProbes \cup ArgListProbes
    \cup QualifierProbes \cup RecursionProbes \cup TemplateTemplateProbes
    \cup TemplatePrefixProbes

\* The productions parsed on their own, on the table the symbol left.
Productions ==
  {"Substitution", "NestedName", "TypeHandle", "Name", "Encoding", "TemplateArgs",
   "PrefixHandle", "UnscopedTemplateNameHandle", "TemplateTemplateParamHandle",
   "UnresolvedTypeHandle"}

----------------------------------------------------------------------------
(* The program: parse a symbol, then render it or parse again. *)

NoCall == [production |-> "", at |-> 0, subs |-> EmptyTable]

Init ==
  /\ input \in Symbols
  /\ overflow_checks \in BOOLEAN
  /\ pc = "start"
  /\ subs = EmptyTable
  /\ call = NoCall
  /\ parsed = Err("", EmptyTable)
  /\ rendered = DemangleContext_new(EmptyTable, "")
  /\ sunk = DemangleContext_new(EmptyTable, "")

\* MangledName::parse on the whole symbol, with a fresh table
ParseSymbol ==
  /\ pc = "start"
  /\ call' = [production |-> "MangledName", at |-> 0, subs |-> subs]
  /\ parsed' = Parse("MangledName", subs, IndexStr(0, input))
  /\ subs' = parsed'.subs
  /\ pc' = "parsed"
  /\ UNCHANGED <<input, overflow_checks, rendered, sunk>>

\* <P as Parse>::parse on the table as it is, with the cursor at offset i
ParseProduction(P, i) ==
  /\ pc = "parsed"
  /\ ~subs.panicked
  /\ call' = [production |-> P, at |-> i, subs |-> subs]
  /\ parsed' = Parse(P, subs, IndexStr(i, Slice(input, i + 1, Len(input))))
  /\ subs' = parsed'.subs
  /\ pc' = "reparsed"
  /\ UNCHANGED <<input, overflow_checks, rendered, sunk>>

\* DemangleContext::new and MangledName::demangle with no argument scope
DemangleSymbol ==
  /\ pc = "parsed"
  /\ parsed.ok
  /\ ~subs.panicked
  /\ rendered' = Demangle(parsed.val, DemangleContext_new(subs, input), <<>>, 0)
  /\ pc' = "done"
  /\ UNCHANGED <<input, overflow_checks, subs, call, parsed, sunk>>

\* DemangleContext::new and MangledName::demangle of the same symbol into a
\* sink with room for `room` bytes
DemangleToSink(room) ==
  /\ pc = "done"
  /\ sunk' = Demangle(parsed.val, DemangleContext_bounded(subs, input, room), <<>>, 0)
  /\ pc' = "sunk"
  /\ UNCHANGED <<input, overflow_checks, subs, call, parsed, rendered>>

Next ==
  \/ ParseSymbol
  \/ \E P \in Productions, i \in 0..(Len(input) - 1) : ParseProduction(P, i)
  \/ DemangleSymbol
  \/ \E room \in 0..MaxRoom : DemangleToSink(room)

Spec == Init /\ [][Next]_vars

----------------------------------------------------------------------------
(* The number scanner on its own. *)

\* Runs of at most n bytes that are decimal digits.
RECURSIVE DecimalRuns(_)
DecimalRuns(n) ==
  IF n = 0 THEN {""}
  ELSE LET shorter == DecimalRuns(n - 1)
       IN shorter \cup {run \o d : run \in shorter, d \in {"0", "1", "9"}}

\* Short decimal runs, runs with letters, and the last value that fits the
\* machine word and the first that does not, in both bases.
NumberRuns ==
  DecimalRuns(MaxDigits)
    \cup {"A", "Z", "1Z", "0A", "A0", "a", "1a"}
    \cup {ToString(ISIZE_MAX), ToString(ISIZE_MAX + 1),
          SeqIdOf(ISIZE_MAX), SeqIdOf(ISIZE_MAX + 1)}

\* A run, behind `n` or not, in front of a byte that ends it or of nothing.
NumberTexts ==
  {sign \o run \o rest : sign \in {"", "n"}, run \in NumberRuns, rest \in {"", "_", "E", "n"}}

\* The (base, allow_signed) pairs parse_number is called with: <number>,
\* <seq-id>, and the unsigned decimal lengths, indices and dimensions.
NumberModes == {<<10, TRUE>>, <<36, FALSE>>, <<10, FALSE>>}

NumberInit ==
  /\ input \in NumberTexts
  /\ overflow_checks = FALSE
  /\ pc = "number"
  /\ subs = EmptyTable
  /\ call = NoCall
  /\ parsed = Err("", EmptyTable)
  /\ rendered = DemangleContext_new(EmptyTable, "")
  /\ sunk = DemangleContext_new(EmptyTable, "")

\* parse_number(base, allow_signed, input) with the cursor at offset i
ScanNumber(base, allow_signed, i) ==
  /\ pc = "number"
  /\ call' = [production |-> "parse_number", at |-> i, subs |-> subs,
              base |-> base, allow_signed |-> allow_signed]
  /\ parsed' = parse_number(base, allow_signed, IndexStr(i, Slice(input, i + 1, Len(input))))
  /\ pc' = "scanned"
  /\ UNCHANGED <<input, overflow_checks, subs, rendered, sunk>>

NumberNext ==
  \E mode \in NumberModes, i \in 0..1 : ScanNumber(mode[1], mode[2], i)

NumberSpec == NumberInit /\ [][NumberNext]_vars

----------------------------------------------------------------------------
(* The argument scope stack on its own. *)

\* Template argument lists of one and two arguments, as they are mangled.
ResolverTexts == {"IiE", "IcE", "IicE", "IciE"}

\* Indices below, at and above the lengths of the lists.
LookupIndices == 0..2

ArgInit ==
  /\ input = ""
  /\ overflow_checks = FALSE
  /\ pc = "stack"
  /\ subs = EmptyTable
  /\ call = [production |-> "", at |-> 0, subs |-> EmptyTable, stack |-> <<>>]
  /\ parsed = Err("", EmptyTable)
  /\ rendered = DemangleContext_new(EmptyTable, "")
  /\ sunk = DemangleContext_new(EmptyTable, "")

\* TemplateArgs::parse of the text, and ArgStackExt::push of what it parsed
PushResolver(text) ==
  /\ pc = "stack"
  /\ Len(call.stack) < MaxStack
  /\ call' = [call EXCEPT !.stack =
                push(@, Parse("TemplateArgs", EmptyTable, IndexStr(0, text)).val)]
  /\ UNCHANGED <<input, overflow_checks, pc, subs, parsed, rendered, sunk>>

\* get_template_arg(idx) on the stack
LookupTemplateArg(idx) ==
  /\ pc = "stack"
  /\ call' = [call EXCEPT !.production = "get_template_arg", !.at = idx]
  /\ parsed' = ArgStack_get_template_arg(call.stack, idx)
  /\ pc' = "looked"
  /\ UNCHANGED <<input, overflow_checks, subs, rendered, sunk>>

\* get_function_arg(idx) on the stack
LookupFunctionArg(idx) ==
  /\ pc = "stack"
  /\ call' = [call EXCEPT !.production = "get_function_arg", !.at = idx]
  /\ parsed' = ArgStack_get_function_arg(call.stack, idx)
  /\ pc' = "looked"
  /\ UNCHANGED <<input, overflow_checks, subs, rendered, sunk>>

ArgNext ==
  \/ \E text \in ResolverTexts : PushResolver(text)
  \/ \E idx \in LookupIndices : LookupTemplateArg(idx)
  \/ \E idx \in LookupIndices : LookupFunctionArg(idx)

ArgSpec == ArgInit /\ [][ArgNext]_vars

----------------------------------------------------------------------------
(* Single productions on texts of their own, with an empty table. *)

\* One or two underscores or none, a decimal run, and what follows it.
DiscriminatorTexts ==
  {pre \o run \o post :
     pre \in {"", "_", "__"},
     run \in DecimalRuns(2) \cup {"5", "n1", ToString(ISIZE_MAX), ToString(ISIZE_MAX + 1)},
     post \in {"", "_", "E"}}

\* Names of every alternative, and `St` in front of an unqualified name, of
\* template arguments and of bytes that start neither.
NameTexts ==
  {"1a", "1aIiE", "1aIXE", "N1a1bE", "N1aE", "Z1aE1b", "Z1aEs", "St1a", "St1aIiE",
   "Stnw", "StIiE", "StI1aE", "StE", "St", "SaIiE", "SsIiE", "Sa", "S_IiE", "nw", "nwIiE",
   "L1a", "T_", "i", ""}

\* Sequences of at most n operands: literals and template parameters.
RECURSIVE OperandRuns(_)
OperandRuns(n) ==
  IF n = 0 THEN {""}
  ELSE LET shorter == OperandRuns(n - 1)
       IN shorter \cup {run \o operand : run \in shorter, operand \in {"Li1E", "T_"}}

\* Operators that no direct form of <expression> starts with: a binary, a
\* unary and the ternary one.
FallbackOperators == {"pl", "ng", "qu"}

\* An operator in front of no operand and of up to one more than it can
\* take, with nothing or a byte that starts no expression behind them.
OperatorTexts ==
  {op \o run \o rest :
     op \in FallbackOperators, run \in OperandRuns(MaxOperands), rest \in {"", "E"}}

\* `gs` in front of each global form, of other expressions and of too few bytes.
GlobalTexts ==
  {"gs" \o rest :
     rest \in {"", "n", "d", "nw", "na", "dl", "da", "nw_iE", "na_iE", "nwLi1E_iE",
               "nw_ipiLi1EE", "dlT_", "daT_", "dlLi1EE", "nwX", "dlX", "1a", "sr1a1b",
               "T_", "Li1E", "plT_T_", "ngT_", "tr", "twT_", "gsdlT_", "X", "XX", "_"}}

\* A length, well formed or not, in front of bytes that are fewer, as many
\* or more, with and without a byte no identifier has.
SourceNameTexts ==
  {len \o bytes :
     len \in {"", "0", "1", "2", "3", "01", "00", "10", ToString(ISIZE_MAX + 1)},
     bytes \in {"", "a", "_", "Z", "$", "ab", "a$", "$a", "a_", "abc", "a_1", "ab$", "a.b",
                "a_1$", "abcd", "a$cd", "abcdefghij", "abcdefghijk", "abcdefghi$k"}}

UnitTexts ==
  DiscriminatorTexts \cup NameTexts \cup OperatorTexts \cup GlobalTexts
    \cup SourceNameTexts

UnitProductions == {"Discriminator", "Name", "Expression", "SourceName"}

UnitInit ==
  /\ input \in UnitTexts
  /\ overflow_checks = FALSE
  /\ pc = "text"
  /\ subs = EmptyTable
  /\ call = NoCall
  /\ parsed = Err("", EmptyTable)
  /\ rendered = DemangleContext_new(EmptyTable, "")
  /\ sunk = DemangleContext_new(EmptyTable, "")

\* <P as Parse>::parse on the whole text, with a fresh table
ParseText(P) ==
  /\ pc = "text"
  /\ call' = [production |-> P, at |-> 0, subs |-> subs]
  /\ parsed' = Parse(P, subs, IndexStr(0, input))
  /\ subs' = parsed'.subs
  /\ pc' = "read"
  /\ UNCHANGED <<input, overflow_checks, rendered, sunk>>

UnitNext == \E P \in UnitProductions : ParseText(P)

UnitSpec == UnitInit /\ [][UnitNext]_vars

----------------------------------------------------------------------------
(* Properties of the substitution table. *)

\* The indices of the back references in an AST node and below it.
RECURSIVE BackReferencesIn(_)
BackReferencesIn(node) ==
  (IF node.s = "BackReference" THEN {node.n[1]} ELSE {})
    \cup UNION {BackReferencesIn(node.kids[i]) : i \in 1..Len(node.kids)}

\* C1: a back-reference handle indexes an entry of the table.  The handle a
\* parse call returns is below the length of the table the call leaves, a
\* resolved substitution is below the length of the table it was resolved
\* on, every back reference in a returned AST is below the table length, and
\* the back references inside entry j are below j, the length of the table
\* when they were made.
C1_BackReferencesInRange ==
  /\ (pc \in {"parsed", "reparsed"} /\ parsed.ok) =>
       \A i \in BackReferencesIn(parsed.val) : i < subs_len(subs)
  /\ (pc = "reparsed" /\ call.production = "Substitution" /\ parsed.ok) =>
       \A i \in BackReferencesIn(parsed.val) : i < subs_len(call.subs)
  /\ \A j \in 1..subs_len(subs) :
       \A i \in BackReferencesIn(subs.tab[j]) : i < j - 1

\* A type parsed on a table that has entries is inserted behind them, and the
\* new entry itself refers back into the table.
C1_Witness ==
  /\ pc = "reparsed"
  /\ call.production = "TypeHandle"
  /\ parsed.ok
  /\ parsed.val.s = "BackReference"
  /\ subs_len(call.subs) > 0
  /\ parsed.val.n[1] >= subs_len(call.subs)
  /\ BackReferencesIn(subs.tab[parsed.val.n[1] + 1]) # {}

\* C2: a parse call, successful or not, only appends to the table.  Every
\* entry the table had before the call is at the same index with the same
\* value after it, and the table is no shorter.
C2_StoreOnlyAppended ==
  pc \in {"parsed", "reparsed"} =>
    /\ subs_len(call.subs) <= subs_len(subs)
    /\ \A j \in 1..subs_len(call.subs) : subs.tab[j] = call.subs.tab[j]

\* A parse call that failed on a table with entries and left more entries.
C2_Witness ==
  /\ pc = "reparsed"
  /\ ~parsed.ok
  /\ subs_len(call.subs) > 0
  /\ subs_len(subs) > subs_len(call.subs)

----------------------------------------------------------------------------
(* Properties of Substitution::parse. *)

\* The bytes a re-parse starts at.
CallText == Slice(input, call.at + 1, Len(input))

\* Number of base-36 digits of s from position i on.
RECURSIVE SeqIdLength(_, _)
SeqIdLength(s, i) ==
  IF PosIn(At(s, i), Digits36) > 0 THEN 1 + SeqIdLength(s, i + 1) ELSE 0

\* Value of a base-36 numeral, 0 for the empty one.
RECURSIVE SeqIdValue(_)
SeqIdValue(digits) ==
  IF digits = "" THEN 0
  ELSE SeqIdValue(Slice(digits, 1, Len(digits) - 1)) * 36
         + PosIn(At(digits, Len(digits)), Digits36) - 1

\* The <seq-id> of a text that starts with `S`.
SeqIdText(text) == Slice(text, 2, 1 + SeqIdLength(text, 2))

\* The text starts with `S_` or `S <seq-id> _`, the <seq-id> without a
\* leading zero unless it is `0`.
IsSubstitutionText(text) ==
  /\ At(text, 1) = "S"
  /\ At(text, 2 + Len(SeqIdText(text))) = "_"
  /\ (Len(SeqIdText(text)) > 1 => At(text, 2) # "0")

\* The index `S_` or `S <seq-id> _` names: 0, or the value of the <seq-id> + 1.
SubstitutionIndex(text) ==
  IF SeqIdText(text) = "" THEN 0 ELSE SeqIdValue(SeqIdText(text)) + 1

\* The outcome of the re-parse is the one for a substitution naming index idx:
\* the back reference when the table had the index, BadBackReference if not.
ResolvedAs(text, idx) ==
  IF idx < subs_len(call.subs)
  THEN /\ parsed.ok
       /\ parsed.val = BackReference("Substitution", idx)
       /\ parsed.tail.idx = call.at + Len(SeqIdText(text)) + 2
  ELSE /\ ~parsed.ok
       /\ parsed.err = "BadBackReference"

\* C3, as stated: `S_` is BackReference(0) and `S <seq-id> _` is
\* BackReference(v + 1), v the base-36 value of the <seq-id>, when the table
\* has that index; when it has not, the parse fails with BadBackReference;
\* and the table is the same after the parse.
C3_SubstitutionAsStated ==
  (pc = "reparsed" /\ call.production = "Substitution") =>
    /\ subs = call.subs
    /\ IsSubstitutionText(CallText) => ResolvedAs(CallText, SubstitutionIndex(CallText))

\* C3, amended: the same for every <seq-id> whose value fits the signed
\* machine word.  A <seq-id> that does not fit is never resolved: the parse
\* fails, with BadBackReference on an empty table and with UnexpectedText on
\* a table that has entries.  In every case the table is the same afterwards.
C3_SubstitutionInWord ==
  (pc = "reparsed" /\ call.production = "Substitution") =>
    /\ subs = call.subs
    /\ (IsSubstitutionText(CallText) /\ SeqIdValue(SeqIdText(CallText)) <= ISIZE_MAX) =>
         ResolvedAs(CallText, SubstitutionIndex(CallText))
    /\ (IsSubstitutionText(CallText) /\ SeqIdValue(SeqIdText(CallText)) > ISIZE_MAX) =>
         /\ ~parsed.ok
         /\ parsed.err = IF subs_len(call.subs) = 0 THEN "BadBackReference"
                         ELSE "UnexpectedText"

\* `S0_` resolved on a table that has index 1.
C3_Witness ==
  /\ pc = "reparsed"
  /\ call.production = "Substitution"
  /\ Slice(CallText, 1, 3) = "S0_"
  /\ parsed.ok
  /\ parsed.val = BackReference("Substitution", 1)
  /\ subs = call.subs

----------------------------------------------------------------------------
(* Properties of the renderer. *)

\* C4: rendering what a successful parse produced ends: it completes or it
\* returns an error, and a cycle of references ends with RecursiveDemangling.
\* The renderer never nests calls without bound, so it never runs out of
\* stack.
C4_RenderingTerminates ==
  pc = "done" => rendered.status # "StackOverflow"

\* C5: the handle for entry i, entered with bit i set, returns
\* RecursiveDemangling and renders nothing under changed mark bits; entered
\* with bit i clear it renders the entry with exactly bit i added; in both
\* cases, and whether the entry rendered or failed, the mark bits it returns
\* with are those it was entered with.  When the top-level render returns,
\* no mark bit is set.
C5_MarkBitsRestored ==
  pc = "done" =>
    /\ \A k \in 1..Len(rendered.handles) :
         LET h == rendered.handles[k]
         IN /\ h.after = h.before
            /\ h.idx \in h.before =>
                 (h.status = "RecursiveDemangling" /\ h.during = h.before)
            /\ h.idx \notin h.before => h.during = h.before \cup {h.idx}
    /\ ~Aborted(rendered) => rendered.mark_bits = {}

\* A render that ran into a set mark bit, below a handle that was entered
\* with its bit clear and came back with the error.
C5_Witness ==
  /\ pc = "done"
  /\ rendered.status = "RecursiveDemangling"
  /\ \E k \in 1..Len(rendered.handles) :
       rendered.handles[k].idx \in rendered.handles[k].before
  /\ \E k \in 1..Len(rendered.handles) :
       /\ rendered.handles[k].idx \notin rendered.handles[k].before
       /\ rendered.handles[k].status = "RecursiveDemangling"
       /\ rendered.handles[k].before # {}

\* The prefix a parsed NestedName ends with is a table entry of variant
\* Prefix::Nested or Prefix::Template.
EndsNestedOrTemplate(nested) ==
  LET prefix == nested.kids[3]
  IN /\ prefix.s = "BackReference"
     /\ subs_contains(subs, prefix.n[1])
     /\ subs_index(subs, prefix.n[1]).k = "Prefix"
     /\ subs_index(subs, prefix.n[1]).s \in {"Nested", "Template"}

\* C6: every <nested-name> that NestedName::parse accepts ends with a prefix
\* of variant Prefix::Nested or Prefix::Template; `N ... E` with any other
\* last prefix (an unqualified name alone, a template parameter, a decltype,
\* a data-member prefix, a well-known component, a back reference to another
\* kind of entry) is rejected.
C6_NestedNameEndsNestedOrTemplate ==
  (pc = "reparsed" /\ call.production = "NestedName" /\ parsed.ok) =>
    EndsNestedOrTemplate(parsed.val)

\* C7: parsing, and rendering what was parsed, return: no step aborts on an
\* index out of range or on arithmetic that overflows the machine word.
C7_NeverAborts ==
  /\ ~subs.panicked
  /\ pc = "done" => ~Aborted(rendered)

\* An AST node of kind k is at or below the node.
RECURSIVE HasNode(_, _)
HasNode(node, k) ==
  node.k = k \/ \E i \in 1..Len(node.kids) : HasNode(node.kids[i], k)

\* C8: a function-param reference inside a function encoding (in a type of
\* the encoding, which the table holds) renders as the parameter it names:
\* rendering the encoding does not fail with BadFunctionArgReference.
C8_FunctionParamResolved ==
  (/\ pc = "done"
   /\ parsed.val.s = "Encoding"
   /\ parsed.val.kids[1].s = "Function"
   /\ \E j \in 1..subs_len(subs) : HasNode(subs.tab[j], "FunctionParam")) =>
    rendered.status # "BadFunctionArgReference"

\* The text of an AST node rendered on its own under the given argument stack.
TextOf(node, stack) == Demangle(node, DemangleContext_new(subs, input), stack, 0).out

\* The text of a function name followed by its parameters; a nested name
\* takes the parameter list in as its inner item.
NameWithParams(name, params, stack) ==
  IF name.s = "Nested"
  THEN DemangleWithInner(name.kids[1], FunctionArgList(params),
                         DemangleContext_new(subs, input), stack, 0).out
  ELSE TextOf(name, stack) \o TextOf(FunctionArgList(params), stack)

\* The text C9 gives a function encoding: with template-args on the name,
\* element 0 of the bare-function-type and a space, then the name with
\* elements 1.. as parameters, all resolved against those template-args;
\* without them, the name with all elements as parameters.
FunctionText(name, types, stack) ==
  LET args == GetTemplateArgs(name, subs)
  IN IF args # None
     THEN TextOf(types[1], push(stack, args)) \o " "
            \o NameWithParams(name, Tail(types), push(stack, args))
     ELSE NameWithParams(name, types, stack)

\* C9: a rendered Encoding::Function whose name carries template-args starts
\* with element 0 of the bare-function-type as the return type and lists
\* elements 1.. as parameters, with the template-args resolvable; one whose
\* name carries none prints no return type and lists every element.
C9_ReturnTypeOnlyForTemplates ==
  (/\ pc = "done"
   /\ rendered.status = "Ok"
   /\ parsed.val.s = "Encoding"
   /\ parsed.val.kids[1].s = "Function") =>
    rendered.out = FunctionText(parsed.val.kids[1].kids[1],
                                parsed.val.kids[1].kids[2].kids, <<>>)

\* A template function rendered with its return type, a reference to its
\* template argument, in front and its one parameter behind.
C9_Witness ==
  /\ pc = "done"
  /\ rendered.status = "Ok"
  /\ parsed.val.s = "Encoding"
  /\ parsed.val.kids[1].s = "Function"
  /\ GetTemplateArgs(parsed.val.kids[1].kids[1], subs) # None
  /\ input = "_Z1aIiET_PKi"
  /\ Len(parsed.val.kids[1].kids[2].kids) = 2
  /\ rendered.out = "int a<int>(int const*)"

\* C10: each symbol of the scenario table is parsed to its last byte and
\* renders to exactly its text.
C10_SeedsRenderExactly ==
  /\ (pc = "parsed" /\ input \in Seeds) =>
       (parsed.ok /\ ~subs.panicked /\ parsed.tail.s = "")
  /\ pc = "done" =>
    /\ input = "_Z3foo" => (rendered.status = "Ok" /\ rendered.out = "foo")
    /\ input = "_Z3fooi" => (rendered.status = "Ok" /\ rendered.out = "foo(int)")
    /\ input = "_Z3foov" => (rendered.status = "Ok" /\ rendered.out = "foo()")
    /\ input = "_ZN3foo3barEv" => (rendered.status = "Ok" /\ rendered.out = "foo::bar()")
    /\ input = "_ZN3foo3barIiEEvT_" =>
         (rendered.status = "Ok" /\ rendered.out = "void foo::bar<int>(int)")
    /\ input = "_Z3fooPKi" => (rendered.status = "Ok" /\ rendered.out = "foo(int const*)")
    /\ input = "_ZTI3foo" => (rendered.status = "Ok" /\ rendered.out = "typeinfo for foo")
    /\ input = "_ZGV3foo" =>
         (rendered.status = "Ok" /\ rendered.out = "{static initialization guard(foo)}")

\* The template function of the scenario table, rendered.
C10_Witness ==
  /\ pc = "done"
  /\ input = "_ZN3foo3barIiEEvT_"
  /\ rendered.out = "void foo::bar<int>(int)"

----------------------------------------------------------------------------
(* Properties of the rendered text. *)

\* s begins with the bytes of prefix
StartsWith(s, prefix) == Slice(s, 1, Len(prefix)) = prefix

\* The <operator-name> a parsed symbol has for its unscoped function name,
\* None when its name is of another form.
OperatorOfSymbol(node) ==
  IF /\ node.k = "MangledName" /\ node.s = "Encoding"
     /\ node.kids[1].s \in {"Function", "Data"}
     /\ node.kids[1].kids[1].s = "Unscoped"
     /\ node.kids[1].kids[1].kids[1].s = "Unqualified"
     /\ node.kids[1].kids[1].kids[1].kids[1].s = "Operator"
  THEN node.kids[1].kids[1].kids[1].kids[1].kids[1]
  ELSE None

\* C11: an unqualified name that is an operator renders as the word
\* `operator` followed by the operator's C++ token, such that `_Znwm` renders
\* as `operator new(unsigned long)`.
C11_OperatorWordThenToken ==
  (pc = "done" /\ OperatorOfSymbol(parsed.val) # None) =>
    /\ rendered.status = "Ok"
    /\ StartsWith(rendered.out,
         "operator" \o Vocabulary_printable(OperatorName_table, OperatorOfSymbol(parsed.val).s))
    /\ input = "_Znwm" => rendered.out = "operator new(unsigned long)"


\* The input without its leading marker, if it has one.
BodyOf(symbol) ==
  IF StartsWith(symbol, "__Z") THEN Slice(symbol, 4, Len(symbol))
  ELSE IF StartsWith(symbol, "_Z") THEN Slice(symbol, 3, Len(symbol))
  ELSE symbol

\* The outcome of parsing a whole symbol with a fresh table and rendering it:
\* whether it is accepted, and the text.
OutcomeOf(symbol) ==
  LET p == Parse("MangledName", EmptyTable, IndexStr(0, symbol))
  IN  IF p.ok /\ ~p.subs.panicked
        THEN [accepted |-> TRUE,
              text |-> Demangle(p.val, DemangleContext_new(p.subs, symbol), <<>>, 0).out]
      ELSE [accepted |-> FALSE, text |-> ""]

\* C12: the leading marker is optional and interchangeable: the body of the
\* parsed symbol, `_Z` + body and `__Z` + body are all accepted or all
\* rejected, and when accepted all render to the same text.
C12_MarkerInterchangeable ==
  pc = "parsed" =>
    \A marker \in {"", "_Z", "__Z"} :
      /\ OutcomeOf(marker \o BodyOf(input)).accepted = (parsed.ok /\ ~subs.panicked)
      /\ OutcomeOf(marker \o BodyOf(input)).text = OutcomeOf(input).text


\* The AST nodes of kind k at or below the node.
RECURSIVE NodesOf(_, _)
NodesOf(node, k) ==
  (IF node.k = k THEN {node} ELSE {})
    \cup UNION {NodesOf(node.kids[i], k) : i \in 1..Len(node.kids)}

\* The nodes of kind k of the parsed symbol and of the entries of its table.
ParsedNodes(k) ==
  NodesOf(parsed.val, k) \cup UNION {NodesOf(subs.tab[j], k) : j \in 1..subs_len(subs)}

\* The identifiers, and the literals whose type is not the nullptr builtin.
RangeNodes ==
  ParsedNodes("Identifier")
    \cup {e \in ParsedNodes("ExprPrimary") : e.s = "Literal" /\ ~ExprPrimary_is_nullptr(e)}

\* C13: an identifier and a literal whose type is not the nullptr builtin
\* render as exactly the bytes input[start..end] of their recorded range, the
\* empty range included, and the range satisfies start <= end <= input length.
C13_RangeNodesRenderTheirBytes ==
  (pc = "parsed" /\ parsed.ok /\ ~subs.panicked) =>
    \A node \in RangeNodes :
      /\ node.n[1] <= node.n[2]
      /\ node.n[2] <= Len(input)
      /\ TextOf(node, <<>>) = Slice(input, node.n[1] + 1, node.n[2])


\* The texts of the parameters, each rendered on its own, with `, ` between.
RECURSIVE JoinedText(_, _)
JoinedText(params, stack) ==
  IF params = <<>> THEN ""
  ELSE IF Len(params) = 1 THEN TextOf(params[1], stack)
  ELSE TextOf(params[1], stack) \o ", " \o JoinedText(Tail(params), stack)

\* The text C14 gives a parameter list.
ListText(params, stack) ==
  IF Len(params) = 1 /\ TypeHandle_is_void(params[1]) THEN "()"
  ELSE "(" \o JoinedText(params, stack) \o ")"

\* The parameters of a function encoding and the argument stack they are
\* rendered under: with template-args on the name, the types behind the
\* return type.
ParamsOf(function) ==
  IF GetTemplateArgs(function.kids[1], subs) # None
  THEN Tail(function.kids[2].kids) ELSE function.kids[2].kids

StackOf(function) ==
  IF GetTemplateArgs(function.kids[1], subs) # None
  THEN push(<<>>, GetTemplateArgs(function.kids[1], subs)) ELSE <<>>

IsRenderedFunction ==
  /\ pc = "done"
  /\ rendered.status = "Ok"
  /\ parsed.val.s = "Encoding"
  /\ parsed.val.kids[1].s = "Function"

EndsWith(s, suffix) == Slice(s, Len(s) - Len(suffix) + 1, Len(s)) = suffix

\* C14: a parameter list of exactly one parameter that is the void builtin
\* renders as `()`; every other list renders as `(`, its parameters with `, `
\* between them, and `)`, the empty list as `()`.  The list is the last thing
\* written for a function whose name is not nested.
C14_ParameterListText ==
  IsRenderedFunction =>
    /\ TextOf(FunctionArgList(ParamsOf(parsed.val.kids[1])), StackOf(parsed.val.kids[1]))
         = ListText(ParamsOf(parsed.val.kids[1]), StackOf(parsed.val.kids[1]))
    /\ parsed.val.kids[1].kids[1].s # "Nested" =>
         EndsWith(rendered.out,
                  ListText(ParamsOf(parsed.val.kids[1]), StackOf(parsed.val.kids[1])))

\* A function whose only parameter is the void builtin, rendered with `()`.
C14_Witness ==
  /\ IsRenderedFunction
  /\ Len(ParamsOf(parsed.val.kids[1])) = 1
  /\ TypeHandle_is_void(ParamsOf(parsed.val.kids[1])[1])
  /\ input = "_Z3foov"
  /\ rendered.out = "foo()"


\* The qualifiers present, in the order const, volatile, restrict, each
\* behind one space.
SpacedWords(quals) ==
  (IF quals[3] = 1 THEN " const" ELSE "")
    \o (IF quals[2] = 1 THEN " volatile" ELSE "")
    \o (IF quals[1] = 1 THEN " restrict" ELSE "")

\* The output without the one space it ends with, if it ends with one.
WithoutSpace(out) ==
  IF EndsWith(out, " ") THEN Slice(out, 1, Len(out) - 1) ELSE out

\* C15: for every combination of cv-qualifiers rendered, the qualifiers
\* appear in the order const, volatile, restrict, restricted to those
\* present, and each is separated from what precedes it in the output by
\* exactly one space, whatever byte was written last before them.
C15_QualifiersBehindOneSpace ==
  (pc = "done" /\ rendered.status = "Ok") =>
    \A i \in 1..Len(rendered.qualifiers) :
      LET q == rendered.qualifiers[i]
          before == Slice(rendered.out, 1, q.at)
      IN  SpacedWords(q.quals) # "" =>
            /\ Slice(rendered.out, 1, q.upto) = WithoutSpace(before) \o SpacedWords(q.quals)
            /\ ~EndsWith(WithoutSpace(before), " ")


----------------------------------------------------------------------------
(* Properties of errors while rendering. *)

\* An error has stopped the render: nothing was written behind the length
\* the output had when the error was returned, and the byte count is the
\* length of the output.
StoppedAtError(ctx) ==
  /\ ctx.bytes_written = Len(ctx.out)
  /\ (Failed(ctx) /\ ~Aborted(ctx)) => Len(ctx.out) = ctx.failed_at

----------------------------------------------------------------------------
(* Properties of the parser's recursion. *)

\* C17: parsing terminates: a production is never called inside a call of
\* itself that was given no more input (so a cv-qualifier parse that consumed
\* nothing is not followed by a recursive type parse), and every iteration of
\* the prefix loop and of the one-or-more and zero-or-more loops that goes on
\* has consumed a byte.  Every parse call of the model returns.
C17_ParsingTerminates ==
  /\ ~subs.stalled
  /\ ~parsed.subs.stalled
  /\ subs.active = <<>>
  /\ pc \in {"parsed", "reparsed"} => parsed.err # "Stalled"

\* A symbol parsed through the prefix loop, the template-args loop, the loop
\* over the types of the function and types inside types.
C17_Witness ==
  /\ pc = "parsed"
  /\ input = "_ZN1a1bIiEEPKii"
  /\ parsed.ok
  /\ parsed.tail.s = ""
  /\ Len(parsed.val.kids[1].kids[2].kids) = 2
  /\ subs_len(subs) >= 5


----------------------------------------------------------------------------
(* Properties of the number scanner. *)

DecimalDigits == {"0", "1", "2", "3", "4", "5", "6", "7", "8", "9"}

UpperCaseLetters ==
  {"A", "B", "C", "D", "E", "F", "G", "H", "I", "J", "K", "L", "M",
   "N", "O", "P", "Q", "R", "S", "T", "U", "V", "W", "X", "Y", "Z"}

\* The bytes that are digits of a run in the base.
RunDigits(base) == IF base = 10 THEN DecimalDigits ELSE DecimalDigits \cup UpperCaseLetters

\* The length of the longest run of digits the text starts with.
RunLength(text, base) ==
  CHOOSE k \in 0..Len(text) :
    /\ \A i \in 1..k : At(text, i) \in RunDigits(base)
    /\ k = Len(text) \/ At(text, k + 1) \notin RunDigits(base)

\* The value of a run of digits.
RECURSIVE RunValue(_, _)
RunValue(run, base) ==
  IF run = "" THEN 0
  ELSE RunValue(Slice(run, 1, Len(run) - 1), base) * base
         + (PosIn(At(run, Len(run)), Digits36) - 1)

\* The text the scanner was given, whether it starts with the sign, the text
\* behind the sign, and the run that text starts with.
ScannedText == Slice(input, call.at + 1, Len(input))

ScannedSign == call.allow_signed /\ At(ScannedText, 1) = "n"

ScannedBody == IF ScannedSign THEN Slice(ScannedText, 2, Len(ScannedText)) ELSE ScannedText

ScannedRun == Slice(ScannedBody, 1, RunLength(ScannedBody, call.base))

ScannedValue ==
  IF ScannedSign THEN 0 - RunValue(ScannedRun, call.base) ELSE RunValue(ScannedRun, call.base)

\* The run is `0` or does not start with `0`.
WellFormedRun == ScannedRun # "" /\ (Len(ScannedRun) = 1 \/ At(ScannedRun, 1) # "0")

\* C18: the scanner accepts exactly a maximal run of one or more digits
\* (decimal digits in base 10; 0-9 and A-Z in base 36, never a lowercase
\* letter), behind an optional `n` when signed; it returns the value of the
\* run, negated behind `n`, and the cursor just past the run.  A run of more
\* than one digit that starts with `0` and a missing run are UnexpectedText;
\* an empty input, also behind a lone `n`, is UnexpectedEnd.  (A run whose
\* value does not fit the machine word is the subject of C19.)
C18_NumberScanner ==
  pc = "scanned" =>
    IF ScannedText = "" \/ (ScannedSign /\ ScannedBody = "")
      THEN ~parsed.ok /\ parsed.err = "UnexpectedEnd"
    ELSE IF ~WellFormedRun
      THEN ~parsed.ok /\ parsed.err = "UnexpectedText"
    ELSE IF RunValue(ScannedRun, call.base) <= ISIZE_MAX
      THEN /\ parsed.ok
           /\ parsed.val = ScannedValue
           /\ parsed.tail.idx = call.at + (Len(ScannedText) - Len(ScannedBody)) + Len(ScannedRun)
           /\ parsed.tail.s = Slice(ScannedBody, Len(ScannedRun) + 1, Len(ScannedBody))
    ELSE ~parsed.ok

\* A negative number scanned up to the byte that ends its run.
C18_Witness ==
  /\ pc = "scanned"
  /\ input = "n19_"
  /\ call.base = 10
  /\ call.allow_signed
  /\ call.at = 0
  /\ parsed.ok
  /\ parsed.val = 0 - 19
  /\ parsed.tail = IndexStr(3, "_")

\* C19: a run whose value does not fit the machine signed word is rejected
\* with Overflow, never wrapped or truncated; every value the scanner returns
\* lies within the signed-word range; and every value within that range that
\* is written without a forbidden leading zero is accepted.
C19_NumberWithinWord ==
  pc = "scanned" =>
    /\ (WellFormedRun /\ RunValue(ScannedRun, call.base) > ISIZE_MAX) =>
         (~parsed.ok /\ parsed.err = "Overflow")
    /\ parsed.ok => (parsed.val >= 0 - ISIZE_MAX - 1 /\ parsed.val <= ISIZE_MAX)
    /\ (WellFormedRun /\ ScannedValue >= 0 - ISIZE_MAX - 1 /\ ScannedValue <= ISIZE_MAX) =>
         (parsed.ok /\ parsed.val = ScannedValue)


----------------------------------------------------------------------------
(* C20 *)

\* The parsers that return a handle, each with the kind of entry it stores.
HandleProductions ==
  {"TypeHandle", "PrefixHandle", "UnscopedTemplateNameHandle",
   "TemplateTemplateParamHandle", "UnresolvedTypeHandle"}

EntryKindOf(P) ==
  CASE P = "TypeHandle" -> "Type"
    [] P = "PrefixHandle" -> "Prefix"
    [] P = "UnscopedTemplateNameHandle" -> "UnscopedTemplateName"
    [] P = "TemplateTemplateParamHandle" -> "TemplateTemplateParam"
    [] P = "UnresolvedTypeHandle" -> "UnresolvedType"

\* The bytes the call consumed end in a substitution that names the handle
\* the call returned: the last component was not a concrete form.
EndsInSubstitution ==
  \E k \in call.at..(parsed.tail.idx - 1) :
    LET sub == Substitution_parse(subs, IndexStr(k, Slice(input, k + 1, Len(input))))
    IN /\ sub.ok
       /\ sub.tail.idx = parsed.tail.idx
       /\ sub.val.s = parsed.val.s
       /\ sub.val.n = parsed.val.n
       /\ sub.val.kids = parsed.val.kids

\* The call resolved to a builtin type, a well-known component or a
\* back reference to an entry that was there.
ResolvedHandle ==
  \/ parsed.val.s \in {"Builtin", "WellKnown"}
  \/ parsed.val.s = "BackReference" /\ parsed.val.n[1] < subs_len(call.subs)
  \/ call.production = "PrefixHandle" /\ EndsInSubstitution

HandleParsed ==
  pc = "reparsed" /\ call.production \in HandleProductions /\ parsed.ok

\* C20: a handle parser that succeeds on a concrete form leaves the parsed
\* value as the last entry of the store, of the kind the parser stores and
\* behind the entries that were there, and returns BackReference of that
\* entry's index; one that resolves to a builtin type, a well-known component
\* or an existing back reference returns that handle, the back reference
\* names an entry of the store, and a type or template-template-param parser
\* leaves the store as it was.
C20_ConcreteFormsAppendAndReturnLast ==
  HandleParsed =>
    IF ResolvedHandle
      THEN /\ parsed.val.s \in {"Builtin", "WellKnown", "BackReference"}
           /\ parsed.val.s = "BackReference" => parsed.val.n[1] < subs_len(subs)
           /\ parsed.val.s = "Builtin" => call.production = "TypeHandle"
           /\ call.production \in {"TypeHandle", "TemplateTemplateParamHandle"}
                => subs = call.subs
    ELSE /\ parsed.val.s = "BackReference"
         /\ subs_len(subs) > subs_len(call.subs)
         /\ parsed.val.n[1] = subs_len(subs) - 1
         /\ subs.tab[subs_len(subs)].k = EntryKindOf(call.production)
         /\ \A j \in 1..subs_len(call.subs) : subs.tab[j] = call.subs.tab[j]

\* A pointer type parsed on a table with entries: its pointee went in first,
\* the pointer last, and the handle names the pointer.
C20_Witness ==
  /\ HandleParsed
  /\ call.production = "TypeHandle"
  /\ subs_len(call.subs) > 0
  /\ subs_len(subs) = subs_len(call.subs) + 2
  /\ parsed.val = BackReference("TypeHandle", subs_len(subs) - 1)
  /\ subs.tab[subs_len(subs)].s = "PointerTo"


----------------------------------------------------------------------------
(* C21 *)

\* The indices an entry of the store refers to, and those they refer to, by
\* at most n steps along back references.
RECURSIVE ReferredWithin(_, _, _)
ReferredWithin(tab, from, n) ==
  IF n = 0 THEN {}
  ELSE LET direct == UNION {BackReferencesIn(tab[j + 1]) : j \in from \cap 0..(Len(tab) - 1)}
       IN direct \cup ReferredWithin(tab, direct, n - 1)

ReferredFrom(tab, i) == ReferredWithin(tab, {i}, Len(tab))

\* C21: in the store a parse leaves, the back references inside the entry at
\* index i are all below i, and following back references from an entry never
\* comes back to it.
C21_ReferencesPointBackward ==
  pc \in {"parsed", "reparsed"} =>
    \A i \in 0..(subs_len(subs) - 1) :
      /\ \A j \in BackReferencesIn(subs.tab[i + 1]) : j < i
      /\ i \notin ReferredFrom(subs.tab, i)

\* A store with a chain of two references: an entry that refers to an entry
\* that refers to a third.
C21_Witness ==
  /\ pc = "parsed"
  /\ parsed.ok
  /\ \E i \in 0..(subs_len(subs) - 1) :
       \E j \in BackReferencesIn(subs.tab[i + 1]) :
         /\ j < i
         /\ BackReferencesIn(subs.tab[j + 1]) # {}
         /\ ReferredFrom(subs.tab, i) = ReferredFrom(subs.tab, j) \cup {j}


----------------------------------------------------------------------------
(* C22 *)

\* The resolvers of the stack, the innermost being 1, that have a template
\* argument of the index looked up.
Answering == {i \in 1..Len(call.stack) : call.at < Len(call.stack[i].kids)}

\* C22: a template-argument lookup returns the argument of the innermost
\* resolver whose list is longer than the index, and fails with
\* BadTemplateArgReference when there is none or the stack is empty; a
\* function-argument lookup on a stack of template argument lists fails with
\* BadFunctionArgReference; and the lookup the renderer makes agrees.
C22_InnermostResolverAnswers ==
  pc = "looked" =>
    /\ call.production = "get_template_arg" =>
         IF Answering = {}
           THEN ~parsed.ok /\ parsed.err = "BadTemplateArgReference"
         ELSE /\ parsed.ok
              /\ \E i \in Answering :
                   /\ \A j \in Answering : i <= j
                   /\ parsed.val = call.stack[i].kids[call.at + 1]
    /\ call.production = "get_function_arg" =>
         ~parsed.ok /\ parsed.err = "BadFunctionArgReference"
    /\ call.production = "get_template_arg" =>
         get_template_arg(call.stack, call.at) = parsed.val
    /\ call.production = "get_function_arg" =>
         get_function_arg(call.stack, call.at) = parsed.val

\* The resolver on top has no second argument, the two below it have
\* different ones, and the lookup of index 1 returned the middle one's.
C22_Witness ==
  /\ pc = "looked"
  /\ call.production = "get_template_arg"
  /\ call.at = 1
  /\ Len(call.stack) = 3
  /\ Answering = {2, 3}
  /\ call.stack[2].kids[2] # call.stack[3].kids[2]
  /\ parsed.ok
  /\ parsed.val = call.stack[2].kids[2]


----------------------------------------------------------------------------
(* C23 *)

DiscriminatorRead == pc = "read" /\ call.production = "Discriminator"

\* The text behind the leading underscores, and the decimal run it starts with.
DiscriminatorBody ==
  IF StartsWith(input, "__") THEN Slice(input, 3, Len(input))
  ELSE Slice(input, 2, Len(input))

DiscriminatorRun == Slice(DiscriminatorBody, 1, RunLength(DiscriminatorBody, 10))

\* `_d`: one underscore and a single decimal digit
ShortDiscriminator ==
  /\ StartsWith(input, "_")
  /\ ~StartsWith(input, "__")
  /\ Len(DiscriminatorRun) = 1

\* `__n_`: two underscores, a decimal n >= 10 and an underscore
LongDiscriminator ==
  /\ StartsWith(input, "__")
  /\ Len(DiscriminatorRun) >= 2
  /\ At(DiscriminatorRun, 1) # "0"
  /\ RunValue(DiscriminatorRun, 10) <= ISIZE_MAX
  /\ At(DiscriminatorBody, Len(DiscriminatorRun) + 1) = "_"

\* C23: the discriminator parser accepts `_d` with a single decimal digit d,
\* yielding d, and `__n_` with a decimal n >= 10, yielding n, and nothing
\* else: `__n_` with n < 10 is UnexpectedText, `__n` without the closing
\* underscore is rejected, and so is one underscore in front of two or more
\* digits, as in `_10`.
C23_DiscriminatorForms ==
  DiscriminatorRead =>
    /\ parsed.ok <=> (ShortDiscriminator \/ LongDiscriminator)
    /\ (parsed.ok /\ ShortDiscriminator) =>
         /\ parsed.val.n = <<RunValue(DiscriminatorRun, 10)>>
         /\ parsed.tail.idx = 2
    /\ (parsed.ok /\ LongDiscriminator) =>
         /\ parsed.val.n = <<RunValue(DiscriminatorRun, 10)>>
         /\ parsed.tail.idx = Len(DiscriminatorRun) + 3
    /\ (StartsWith(input, "__") /\ Len(DiscriminatorRun) = 1) =>
         (~parsed.ok /\ parsed.err = "UnexpectedText")
    /\ input = "_10" => ~parsed.ok

\* What the parser does with one underscore: the byte behind it decides, and
\* the bytes behind that byte are left to the caller.
C23_FirstDigitTaken ==
  (DiscriminatorRead /\ StartsWith(input, "_") /\ ~StartsWith(input, "__")) =>
    /\ parsed.ok <=> Len(DiscriminatorRun) >= 1
    /\ parsed.ok =>
         /\ parsed.val.n = <<RunValue(Slice(DiscriminatorRun, 1, 1), 10)>>
         /\ parsed.tail.idx = 2


----------------------------------------------------------------------------
(* C24 *)

\* The cursor a probe was given.
CallCursor == IndexStr(call.at, Slice(input, call.at + 1, Len(input)))

EncodingParsed == pc = "reparsed" /\ call.production = "Encoding"

\* What C24 says of an encoding, given what the name, the bare function type
\* behind the name and the special name at the same place parse to.
EncodingAsStated(name, ty, special) ==
  IF name.ok /\ ty.ok THEN
    /\ parsed.ok
    /\ parsed.val = Node("Encoding", "Function", <<>>, <<name.val, ty.val>>)
    /\ parsed.tail = ty.tail
  ELSE IF name.ok THEN
    /\ parsed.ok
    /\ parsed.val = Node("Encoding", "Data", <<>>, <<name.val>>)
    /\ parsed.tail = name.tail
  ELSE IF special.ok THEN
    /\ parsed.ok
    /\ parsed.val = Node("Encoding", "Special", <<>>, <<special.val>>)
    /\ parsed.tail = special.tail
  ELSE ~parsed.ok /\ parsed.err = special.err

EncodingOfName(name) ==
  EncodingAsStated(name, Parse("BareFunctionType", name.subs, name.tail),
                   Parse("SpecialName", name.subs, CallCursor))

\* C24: an encoding is the name with the bare function type that parses
\* behind it (Function), else the name alone with the cursor right behind the
\* name (Data); the special name is tried only when the name fails, and then
\* its result, or its error, is the encoding's.
C24_EncodingAlternatives ==
  EncodingParsed => EncodingOfName(Parse("Name", call.subs, CallCursor))

\* A name in front of bytes that start no type: a Data encoding, the cursor
\* at the first of those bytes.
C24_Witness ==
  /\ EncodingParsed
  /\ parsed.ok
  /\ parsed.val.s = "Data"
  /\ parsed.tail.s # ""
  /\ parsed.tail.idx > call.at


----------------------------------------------------------------------------
(* C25 *)

NameRead == pc = "read" /\ call.production = "Name"

\* The name made of the first alternative that succeeds, as a record of the
\* value and the cursor, or NoName.
NoName == [ok |-> FALSE, val |-> None, tail |-> NoCursor]

NameOf(variant, kids, tail) ==
  [ok |-> TRUE, val |-> Node("Name", variant, <<>>, kids), tail |-> tail]

\* `St` + <unqualified-name>
StdAlternative(st, inp) ==
  LET s == consume("St", inp)
      name == Parse("UnqualifiedName", st, s.tail)
  IN IF s.ok /\ name.ok THEN NameOf("Std", <<name.val>>, name.tail) ELSE NoName

\* <unscoped-name>, with <template-args> exactly when `I` follows it
UnscopedAlternative(st, inp) ==
  LET name == Parse("UnscopedName", st, inp)
      handle == insert_and_return_handle("UnscopedTemplateNameHandle",
                  Node("UnscopedTemplateName", "", <<>>, <<name.val>>), name.subs, name.tail)
      args == Parse("TemplateArgs", handle.subs, name.tail)
  IN IF ~name.ok THEN NoName
     ELSE IF Peek(name.tail) # "I" THEN NameOf("Unscoped", <<name.val>>, name.tail)
     ELSE IF args.ok THEN NameOf("UnscopedTemplate", <<handle.val, args.val>>, args.tail)
     ELSE NoName

\* <unscoped-template-name> handle + <template-args>
HandleAlternative(st, inp) ==
  LET handle == Parse("UnscopedTemplateNameHandle", st, inp)
      args == Parse("TemplateArgs", handle.subs, handle.tail)
  IN IF handle.ok /\ args.ok
       THEN NameOf("UnscopedTemplate", <<handle.val, args.val>>, args.tail)
     ELSE NoName

WholeAlternative(P, variant, st, inp) ==
  LET r == Parse(P, st, inp)
  IN IF r.ok THEN NameOf(variant, <<r.val>>, r.tail) ELSE NoName

FirstNameThatSucceeds(st, inp) ==
  IF WholeAlternative("NestedName", "Nested", st, inp).ok
    THEN WholeAlternative("NestedName", "Nested", st, inp)
  ELSE IF StdAlternative(st, inp).ok THEN StdAlternative(st, inp)
  ELSE IF UnscopedAlternative(st, inp).ok THEN UnscopedAlternative(st, inp)
  ELSE IF HandleAlternative(st, inp).ok THEN HandleAlternative(st, inp)
  ELSE WholeAlternative("LocalName", "Local", st, inp)

\* C25: a name is the first of NestedName, `St` + unqualified name,
\* UnscopedName (with template arguments exactly when `I` follows it),
\* UnscopedTemplateNameHandle + template arguments and LocalName that
\* succeeds, and the parse fails only when none does; `St` in front of an
\* unqualified name is Name::Std with the cursor right behind that name.
C25_FirstNameAlternative ==
  NameRead =>
    /\ parsed.ok = FirstNameThatSucceeds(call.subs, CallCursor).ok
    /\ parsed.ok =>
         /\ parsed.val = FirstNameThatSucceeds(call.subs, CallCursor).val
         /\ parsed.tail = FirstNameThatSucceeds(call.subs, CallCursor).tail
    /\ StdAlternative(call.subs, CallCursor).ok =>
         /\ parsed.ok
         /\ parsed.val.s = "Std"
         /\ parsed.tail = StdAlternative(call.subs, CallCursor).tail

\* What the code does behind `St`: the unqualified name decides, and no later
\* alternative is tried.
C25_StdCommits ==
  (NameRead /\ StartsWith(input, "St")) =>
    /\ parsed.ok = StdAlternative(call.subs, CallCursor).ok
    /\ parsed.ok => parsed.val.s = "Std"


----------------------------------------------------------------------------
(* C26 *)

TypeHandleParsed == pc = "reparsed" /\ call.production = "TypeHandle"

\* The cursor behind a leading <substitution> or <template-param>, when one
\* parses on the table of the call; NoCursor otherwise.
LeadingTail ==
  IF Substitution_parse(call.subs, CallCursor).ok
    THEN Substitution_parse(call.subs, CallCursor).tail
  ELSE IF TemplateParam_parse(call.subs, CallCursor).ok
    THEN TemplateParam_parse(call.subs, CallCursor).tail
  ELSE NoCursor

\* The type starts with a substitution or a template parameter, and `I` follows.
SpeculativeStart == LeadingTail # NoCursor /\ Peek(LeadingTail) = "I"

\* The entries the call added to the table.
NewEntries == SubSeq(subs.tab, subs_len(call.subs) + 1, subs_len(subs))

\* C26: when a type starts with a substitution or a template parameter and
\* `I` follows, the handle of the substitution is not what the parse returns
\* and no Type::TemplateParam entry is made of the parameter: a successful
\* parse returns a new entry, a type that holds the template arguments, and
\* its cursor is behind those arguments.
C26_SpeculativeStartDiscarded ==
  (TypeHandleParsed /\ SpeculativeStart /\ parsed.ok) =>
    /\ parsed.val.s = "BackReference"
    /\ parsed.val.n[1] >= subs_len(call.subs)
    /\ NewEntries # <<>>
    /\ ~(NewEntries[1].k = "Type" /\ NewEntries[1].s = "TemplateParam")
    /\ subs.tab[subs_len(subs)].s \in {"TemplateTemplate", "ClassEnum"}
    /\ Parse("TemplateArgs", call.subs, LeadingTail).ok
    /\ parsed.tail = Parse("TemplateArgs", call.subs, LeadingTail).tail

\* A template parameter in front of template arguments, parsed on a table
\* with an entry: the parameter went in as a template-template-param, and
\* the type made of it and the arguments behind it.
C26_Witness ==
  /\ TypeHandleParsed
  /\ SpeculativeStart
  /\ parsed.ok
  /\ At(CallCursor.s, 1) = "T"
  /\ subs_len(call.subs) > 0
  /\ Len(NewEntries) = 2
  /\ NewEntries[1].k = "TemplateTemplateParam"
  /\ NewEntries[2].s = "TemplateTemplate"
  /\ parsed.tail.s = ""


----------------------------------------------------------------------------
(* C27 *)

PrefixHandleParsed == pc = "reparsed" /\ call.production = "PrefixHandle"

\* The handle is a back reference to an entry of the table that is a Prefix
\* of variant Unqualified, Nested or TemplateParam.
TemplateAble(tab, handle) ==
  /\ handle.k = "PrefixHandle"
  /\ handle.s = "BackReference"
  /\ handle.n[1] < Len(tab)
  /\ tab[handle.n[1] + 1].k = "Prefix"
  /\ tab[handle.n[1] + 1].s \in {"Unqualified", "Nested", "TemplateParam"}

TemplateEntries(tab) == {i \in 1..Len(tab) : tab[i].k = "Prefix" /\ tab[i].s = "Template"}

\* C27: every Prefix::Template(h, args) entry of the table has for h a back
\* reference to a Prefix entry of variant Unqualified, Nested or
\* TemplateParam, so the loop took no `I` for template arguments behind a
\* prefix of another kind, a well-known component or an entry that is no
\* prefix; and with no prefix yet, `I` ends the parse with no byte consumed
\* and no entry made.
C27_TemplateArgsOnlyOnTemplatePrefix ==
  /\ pc \in {"parsed", "reparsed"} =>
       \A i \in TemplateEntries(subs.tab) :
         /\ TemplateAble(subs.tab, subs.tab[i].kids[1])
         /\ subs.tab[i].kids[1].n[1] < i - 1
         /\ subs.tab[i].kids[2].k = "TemplateArgs"
  /\ (PrefixHandleParsed /\ At(CallCursor.s, 1) = "I") =>
       (~parsed.ok /\ subs = call.subs)

\* The prefix loop stopped in front of `I` with a well-known component for
\* the prefix, having made no entry.
C27_Witness ==
  /\ PrefixHandleParsed
  /\ parsed.ok
  /\ parsed.val.s = "WellKnown"
  /\ Peek(parsed.tail) = "I"
  /\ parsed.tail.idx = call.at + 2
  /\ subs = call.subs


----------------------------------------------------------------------------
(* C28 *)

ExpressionRead == pc = "read" /\ call.production = "Expression"

\* The expression starts with an operator name that no direct form takes.
FallbackRead == ExpressionRead /\ Slice(input, 1, 2) \in FallbackOperators

\* The expression of the operator and the operands that parsed.
OperatorExpression(opname, operands) ==
  Node("Expression",
       CASE Len(operands) = 1 -> "Unary" [] Len(operands) = 2 -> "Binary"
         [] Len(operands) = 3 -> "Ternary",
       <<>>, <<opname>> \o operands)

\* What C28 says of the fallback, given the operator name and the first,
\* second and third sub-expression behind it, each parsed where the one
\* before it ended.
FallbackAsStated(opname, first, second, third) ==
  IF ~opname.ok \/ ~first.ok THEN ~parsed.ok
  ELSE /\ parsed.ok
       /\ IF ~second.ok
            THEN /\ parsed.val = OperatorExpression(opname.val, <<first.val>>)
                 /\ parsed.tail = first.tail
          ELSE IF ~third.ok
            THEN /\ parsed.val = OperatorExpression(opname.val, <<first.val, second.val>>)
                 /\ parsed.tail = second.tail
          ELSE /\ parsed.val =
                    OperatorExpression(opname.val, <<first.val, second.val, third.val>>)
               /\ parsed.tail = third.tail

FallbackOfSecond(opname, first, second) ==
  FallbackAsStated(opname, first, second, Parse("Expression", second.subs, second.tail))

FallbackOfFirst(opname, first) ==
  FallbackOfSecond(opname, first, Parse("Expression", first.subs, first.tail))

FallbackOfName(opname) ==
  FallbackOfFirst(opname, Parse("Expression", opname.subs, opname.tail))

\* C28: an expression parsed through the operator name takes as many
\* operands as parse one behind the other, up to three, and is Unary, Binary
\* or Ternary by their number whatever the operator; it fails only when the
\* operator name or the first operand does.
C28_OperandsAsManyAsParse ==
  FallbackRead => FallbackOfName(Parse("OperatorName", call.subs, CallCursor))

\* The binary `+` in front of four operands: a Ternary of the first three,
\* the cursor at the fourth.
C28_Witness ==
  /\ FallbackRead
  /\ input = "plT_Li1ET_Li1E"
  /\ parsed.ok
  /\ parsed.val.s = "Ternary"
  /\ Len(parsed.val.kids) = 4
  /\ parsed.tail = IndexStr(10, "Li1E")

----------------------------------------------------------------------------
(* C29 *)

GlobalRead == ExpressionRead /\ StartsWith(input, "gs")

GlobalForms == {"nw", "na", "dl", "da"}

GlobalVariants == {"GlobalNew", "GlobalNewArray", "GlobalDelete", "GlobalDeleteArray"}

----------------------------------------------------------------------------
(* C30 *)

SourceNameRead == pc = "read" /\ call.production = "SourceName"

LowerCaseLetters ==
  {"a", "b", "c", "d", "e", "f", "g", "h", "i", "j", "k", "l", "m",
   "n", "o", "p", "q", "r", "s", "t", "u", "v", "w", "x", "y", "z"}

\* `_`, a digit or a letter
IdentifierBytes == {"_"} \cup DecimalDigits \cup UpperCaseLetters \cup LowerCaseLetters

\* The decimal run the text starts with, its value, and the bytes behind it.
LengthRun == Slice(input, 1, RunLength(input, 10))

DeclaredLength == RunValue(LengthRun, 10)

BytesBehindLength == Slice(input, Len(LengthRun) + 1, Len(input))

\* An unsigned decimal without a leading zero.
WellFormedLength == LengthRun # "" /\ (Len(LengthRun) = 1 \/ At(LengthRun, 1) # "0")

\* C30: a source name parses exactly when its length is a decimal above zero
\* with no leading zero, that many bytes follow, and each of them is `_`, a
\* digit or a letter; the identifier's range is those bytes and the cursor is
\* right behind them.  A length of zero and a byte of another kind among them
\* are UnexpectedText, too few bytes UnexpectedEnd.  (A length that does not
\* fit the machine word is rejected by the number scanner: C19.)
C30_SourceNameByLength ==
  SourceNameRead =>
    IF ~WellFormedLength \/ DeclaredLength > ISIZE_MAX THEN ~parsed.ok
    ELSE IF DeclaredLength = 0 THEN ~parsed.ok /\ parsed.err = "UnexpectedText"
    ELSE IF Len(BytesBehindLength) < DeclaredLength
      THEN ~parsed.ok /\ parsed.err = "UnexpectedEnd"
    ELSE IF \E i \in 1..DeclaredLength : At(BytesBehindLength, i) \notin IdentifierBytes
      THEN ~parsed.ok /\ parsed.err = "UnexpectedText"
    ELSE /\ parsed.ok
         /\ parsed.val.k = "SourceName"
         /\ parsed.val.kids[1].k = "Identifier"
         /\ parsed.val.kids[1].n = <<Len(LengthRun), Len(LengthRun) + DeclaredLength>>
         /\ parsed.tail.idx = Len(LengthRun) + DeclaredLength
         /\ parsed.tail.s = Slice(BytesBehindLength, DeclaredLength + 1, Len(BytesBehindLength))

\* Three identifier bytes of the three kinds in front of a byte of another
\* kind: the name is the three bytes and the cursor is at the fourth.
C30_Witness ==
  /\ SourceNameRead
  /\ input = "3a_1$"
  /\ parsed.ok
  /\ parsed.val.kids[1].n = <<1, 4>>
  /\ parsed.tail = IndexStr(4, "$")

=============================================================================
